---- MODULE Spec2Model ----
(***************************************************************************)
(* A model of the rates simulator's fee engine: volumetrics, inbound,      *)
(* storage and outbound pricing, and the orchestration of app/main.py.     *)
(*                                                                         *)
(* Python floats are modelled as binary floating-point numbers with a      *)
(* mantissa of Prec bits and round-to-nearest, ties-to-even: a float is    *)
(* the pair <<m, e>> of value m * 2^e, with 2^(Prec-1) <= |m| < 2^Prec, or  *)
(* <<0, 0>> for zero.  Every arithmetic operation rounds its exact result  *)
(* once, as IEEE-754 does; Python ints are exact.                          *)
(***************************************************************************)
EXTENDS Integers, Sequences, FiniteSets, TLC

\* ------------------------------------------------------------------------
\* Bounds of the model

\* bits of mantissa of the modelled float (53 in CPython)
Prec == 7
\* most products in one /details request
MaxProducts == 1
\* most lines in one quantities / order / sales request of a session
MaxLines == 2
\* most lines of a batch, an order or a simulation handed to a pricer
MaxBatch == 3
\* largest quantity of such a line
MaxQuantity == 3
\* largest whole weight handed to compute_outbound
MaxWeight == 125

\* ------------------------------------------------------------------------
\* Floating point

Pow2(k) == IF k <= 0 THEN 1 ELSE 2 ^ k

Abs(n) == IF n < 0 THEN -n ELSE n

\* n / d (n >= 0, d > 0) rounded to the nearest integer, ties to even
RoundHalfEven(n, d) ==
    LET q == n \div d
        r == n % d
    IN  IF 2 * r > d \/ (2 * r = d /\ q % 2 = 1) THEN q + 1 ELSE q

\* the float nearest to (n / d) * 2^e, for n > 0 and d > 0
RECURSIVE NormPos(_, _, _)
NormPos(n, d, e) ==
    IF n >= Pow2(Prec) * d THEN
        (IF n % 2 = 0 THEN NormPos(n \div 2, d, e + 1) ELSE NormPos(n, 2 * d, e + 1))
    ELSE IF n < Pow2(Prec - 1) * d THEN NormPos(2 * n, d, e - 1)
    ELSE LET m == RoundHalfEven(n, d)
         IN  IF m = Pow2(Prec) THEN <<Pow2(Prec - 1), e + 1>> ELSE <<m, e>>

\* the float nearest to (n / d) * 2^e, for any n and d # 0
Fl(n, d, e) ==
    IF n = 0 THEN <<0, 0>>
    ELSE LET r == NormPos(Abs(n), Abs(d), e)
         IN  IF (n < 0) # (d < 0) THEN <<-r[1], r[2]>> ELSE r

\* float(k) for an int k, and the float of a decimal literal n/d
ToFloat(k) == Fl(k, 1, 0)
Ratio(n, d) == Fl(n, d, 0)

FZero == <<0, 0>>
FNeg(a) == <<-a[1], a[2]>>

FMul(a, b) == Fl(a[1] * b[1], 1, a[2] + b[2])
FDiv(a, b) == Fl(a[1], b[1], a[2] - b[2])

\* an operand more than Prec + 2 binary places below the other cannot move
\* the rounded sum
FAdd(a, b) ==
    IF a[1] = 0 THEN b
    ELSE IF b[1] = 0 THEN a
    ELSE IF a[2] - b[2] > Prec + 2 THEN a
    ELSE IF b[2] - a[2] > Prec + 2 THEN b
    ELSE LET lo == IF a[2] < b[2] THEN a[2] ELSE b[2]
         IN  Fl(a[1] * Pow2(a[2] - lo) + b[1] * Pow2(b[2] - lo), 1, lo)

FSub(a, b) == FAdd(a, FNeg(b))

\* rounding never changes the sign of a difference
FLt(a, b) == FSub(a, b)[1] < 0
FLe(a, b) == FSub(a, b)[1] <= 0
FGt(a, b) == FLt(b, a)
FGe(a, b) == FLe(b, a)

\* float (op) int: the int is exact, the result is rounded once
FMulInt(a, k) == Fl(a[1] * k, 1, a[2])
FDivInt(a, k) == Fl(a[1], k, a[2])

\* float - int: the int is exact, the difference is rounded once
FSubInt(a, k) ==
    IF a[2] >= 0 THEN Fl(a[1] * Pow2(a[2]) - k, 1, 0)
    ELSE IF -a[2] > 2 * Prec + 8 THEN (IF k = 0 THEN a ELSE Fl(-k, 1, 0))
    ELSE Fl(a[1] - k * Pow2(-a[2]), 1, a[2])

\* math.floor and math.ceil: exact ints
FFloor(a) ==
    IF a[2] >= 0 THEN a[1] * Pow2(a[2])
    ELSE IF -a[2] > 2 * Prec THEN (IF a[1] < 0 THEN -1 ELSE 0)
    ELSE a[1] \div Pow2(-a[2])
FCeil(a) == -FFloor(FNeg(a))

\* comparisons of a float with an int are exact
FLtInt(a, k) == FFloor(a) < k
FGeInt(a, k) == FFloor(a) >= k
FGtInt(a, k) == FCeil(a) > k
FLeInt(a, k) == FCeil(a) <= k
FEqInt(a, k) == FFloor(a) = k /\ FCeil(a) = k

\* sum(xs) of Python: left to right from 0
RECURSIVE FSumFrom(_, _, _)
FSumFrom(acc, xs, i) ==
    IF i > Len(xs) THEN acc ELSE FSumFrom(FAdd(acc, xs[i]), xs, i + 1)
FSum(xs) == FSumFrom(FZero, xs, 1)

\* ------------------------------------------------------------------------
\* The outcome of a call that may raise: the value returned, or the exception

Returned(v) == [raised |-> "", value |-> v]
Raised(e) == [raised |-> e]

\* ------------------------------------------------------------------------
\* app/config.py: the rate schedule

\* the environment's values (the .env file the loader reads)
ENV_STRG_VOL_LIMIT == 2592
ENV_STRG_UNIT_VOL == 4000
ENV_STRG_RATE_REG == 5
ENV_STRG_RATE_LRG == 8
ENV_M_VOL_WEIGHT_LIMIT_IN == 4
ENV_L_VOL_WEIGHT_LIMIT_IN == 8
ENV_XL_VOL_WEIGHT_LIMIT_IN == 12
ENV_IN_VOL_WEIGHT_LIMIT == 30
ENV_S_RATE_IN == 2
ENV_M_RATE_IN == 3
ENV_L_RATE_IN == 4
ENV_XL_RATE_IN == 6
ENV_S_VOL_WEIGHT_LIMIT_OUT == 5
ENV_M_VOL_WEIGHT_LIMIT_OUT == 15
ENV_L_VOL_WEIGHT_LIMIT_OUT == 55
ENV_S_RATE_OUT == 3
ENV_M_RATE_OUT == 5
ENV_L_RATE_OUT == 8
ENV_XL_RATE_OUT == 10
ENV_DIVISOR == 5000

Size == {"S", "M", "L", "XL"}

\* the Settings record get_settings() builds: int(...) values are ints,
\* float(...) values are floats
get_settings ==
    [ M_VOL_WEIGHT_LIMIT_IN  |-> ENV_M_VOL_WEIGHT_LIMIT_IN,
      L_VOL_WEIGHT_LIMIT_IN  |-> ENV_L_VOL_WEIGHT_LIMIT_IN,
      XL_VOL_WEIGHT_LIMIT_IN |-> ENV_XL_VOL_WEIGHT_LIMIT_IN,
      S_RATE_IN  |-> ToFloat(ENV_S_RATE_IN),
      M_RATE_IN  |-> ToFloat(ENV_M_RATE_IN),
      L_RATE_IN  |-> ToFloat(ENV_L_RATE_IN),
      XL_RATE_IN |-> ToFloat(ENV_XL_RATE_IN),
      STRG_VOL_LIMIT |-> ENV_STRG_VOL_LIMIT,
      STRG_UNIT_VOL  |-> ENV_STRG_UNIT_VOL,
      STRG_RATE_REG  |-> ToFloat(ENV_STRG_RATE_REG),
      STRG_RATE_LRG  |-> ToFloat(ENV_STRG_RATE_LRG),
      IN_VOL_WEIGHT_LIMIT |-> ENV_IN_VOL_WEIGHT_LIMIT,
      S_VOL_WEIGHT_LIMIT_OUT |-> ENV_S_VOL_WEIGHT_LIMIT_OUT,
      M_VOL_WEIGHT_LIMIT_OUT |-> ENV_M_VOL_WEIGHT_LIMIT_OUT,
      L_VOL_WEIGHT_LIMIT_OUT |-> ENV_L_VOL_WEIGHT_LIMIT_OUT,
      S_RATE_OUT  |-> ToFloat(ENV_S_RATE_OUT),
      M_RATE_OUT  |-> ToFloat(ENV_M_RATE_OUT),
      L_RATE_OUT  |-> ToFloat(ENV_L_RATE_OUT),
      XL_RATE_OUT |-> ToFloat(ENV_XL_RATE_OUT),
      DIVISOR |-> ENV_DIVISOR,
      IN_TIERS |->
        [ z \in Size |->
            CASE z = "S"  -> <<0, ToFloat(ENV_S_RATE_IN)>>
              [] z = "M"  -> <<ENV_M_VOL_WEIGHT_LIMIT_IN, ToFloat(ENV_S_RATE_IN)>>
              [] z = "L"  -> <<ENV_L_VOL_WEIGHT_LIMIT_IN, ToFloat(ENV_L_RATE_IN)>>
              [] z = "XL" -> <<ENV_XL_VOL_WEIGHT_LIMIT_IN, ToFloat(ENV_XL_RATE_IN)>> ] ]

\* A schedule object that also carries the large-order limit compute_outbound
\* reads (s.XL_VOL_WEIGHT_LIMIT_OUT): Settings declares no such field, so only
\* a caller-supplied object has it.
CALLER_XL_VOL_WEIGHT_LIMIT_OUT == 60

WithLimit(s0, limit) ==
    [ f \in DOMAIN s0 \cup {"XL_VOL_WEIGHT_LIMIT_OUT"} |->
        IF f = "XL_VOL_WEIGHT_LIMIT_OUT" THEN limit ELSE s0[f] ]

\* the record the loader builds when the environment sets other outbound
\* thresholds: it copies int(os.getenv(...)) of each, whatever its value
WithTiers(s0, l, m, sm) ==
    [s0 EXCEPT !.L_VOL_WEIGHT_LIMIT_OUT = l,
               !.M_VOL_WEIGHT_LIMIT_OUT = m,
               !.S_VOL_WEIGHT_LIMIT_OUT = sm]

\* the loader's schedule, the same with a large-order limit, one whose L and M
\* thresholds are 15 and 50, and one whose thresholds are all zero
Schedules ==
    { get_settings,
      WithLimit(get_settings, CALLER_XL_VOL_WEIGHT_LIMIT_OUT),
      WithLimit(WithTiers(get_settings, 15, 50, 5), CALLER_XL_VOL_WEIGHT_LIMIT_OUT),
      WithLimit(WithTiers(get_settings, 0, 0, 0), CALLER_XL_VOL_WEIGHT_LIMIT_OUT) }

HasAttr(s0, f) == f \in DOMAIN s0

\* stable sort of (threshold, rate) pairs, descending by threshold
RECURSIVE InsertDesc(_, _)
InsertDesc(sorted, t) ==
    IF sorted = << >> THEN <<t>>
    ELSE IF Head(sorted)[1] >= t[1] THEN <<Head(sorted)>> \o InsertDesc(Tail(sorted), t)
    ELSE <<t>> \o sorted

sorted_tiers(s0) ==
    InsertDesc(InsertDesc(InsertDesc(<< >>,
        <<s0.L_VOL_WEIGHT_LIMIT_OUT, s0.L_RATE_OUT>>),
        <<s0.M_VOL_WEIGHT_LIMIT_OUT, s0.M_RATE_OUT>>),
        <<s0.S_VOL_WEIGHT_LIMIT_OUT, s0.S_RATE_OUT>>)

\* a faulty lookup: a size that is not a key is priced at a default rate
get_in_rate_by_size_default(s0, size) ==
    IF size \in DOMAIN s0.IN_TIERS THEN Returned(s0.IN_TIERS[size][2])
    ELSE Returned(FZero)

\* IN_TIERS[size][1]: KeyError for a size that is not a key
get_in_rate_by_size(s0, size) ==
    IF size \in DOMAIN s0.IN_TIERS THEN Returned(s0.IN_TIERS[size][2])
    ELSE Raised("KeyError")

\* ------------------------------------------------------------------------
\* app/services/volumetrics.py (the schedule is the cached get_settings())

compute_volume(product) == FMul(FMul(product.height, product.width), product.depth)

\* max(weight, dimensional_weight): the first argument unless the second is greater
compute_volume_weight(product) ==
    LET dimensional_weight == FDivInt(product.vol, get_settings.DIVISOR)
    IN  IF FGt(dimensional_weight, product.weight) THEN dimensional_weight
        ELSE product.weight

\* a faulty order: the volumetric weight is derived before vol is set
apply_volumetrics_stale(products) ==
    [ i \in DOMAIN products |->
        [products[i] EXCEPT !.vol = compute_volume(products[i]),
                            !.vol_weight = compute_volume_weight(products[i])] ]

apply_volumetrics(products) ==
    [ i \in DOMAIN products |->
        LET p1 == [products[i] EXCEPT !.vol = compute_volume(products[i])]
        IN  [p1 EXCEPT !.vol_weight = compute_volume_weight(p1)] ]

\* ------------------------------------------------------------------------
\* app/services/inbound.py (the schedule is the cached get_settings())

RECURSIVE total_vol_weight_in(_, _, _)
total_vol_weight_in(rps, i, acc) ==
    IF i > Len(rps) THEN acc
    ELSE total_vol_weight_in(rps, i + 1,
            FAdd(acc, FMulInt(rps[i].product.vol_weight, rps[i].quantity_received)))

\* a faulty chain: a total on a boundary goes to the upper bucket
size_of_inclusive(total, s0) ==
    IF FGeInt(total, s0.XL_VOL_WEIGHT_LIMIT_IN) THEN "XL"
    ELSE IF FGeInt(total, s0.L_VOL_WEIGHT_LIMIT_IN) THEN "L"
    ELSE IF FGeInt(total, s0.M_VOL_WEIGHT_LIMIT_IN) THEN "M"
    ELSE "S"

\* the if / elif chain over the batch's total volumetric weight
size_of(total, s0) ==
    IF FGtInt(total, s0.XL_VOL_WEIGHT_LIMIT_IN) THEN "XL"
    ELSE IF FGtInt(total, s0.L_VOL_WEIGHT_LIMIT_IN) THEN "L"
    ELSE IF FGtInt(total, s0.M_VOL_WEIGHT_LIMIT_IN) THEN "M"
    ELSE "S"

assign_size(inv) ==
    [inv EXCEPT !.size =
        size_of(total_vol_weight_in(inv.received_products, 1, FZero), get_settings)]

\* the loop of compute_inbound_rates from line i on, with the running total
RECURSIVE inbound_loop(_, _, _, _)
\* a faulty pass: the total is overwritten by the line's fee
inbound_line_last(rps, rate, i, total, fee) ==
    inbound_loop([rps EXCEPT ![i].total_inbound_fee = fee], rate, i + 1, fee)

\* one pass of the loop: line i gets its fee, the total grows by it
inbound_line(rps, rate, i, total, fee) ==
    inbound_loop([rps EXCEPT ![i].total_inbound_fee = fee], rate, i + 1, FAdd(total, fee))

inbound_loop(rps, rate, i, total) ==
    IF i > Len(rps) THEN [received_products |-> rps, total |-> total]
    ELSE inbound_line(rps, rate, i, total,
            FMul(FMulInt(rate, rps[i].quantity_received), rps[i].product.vol_weight))

\* the inventory with the loop's lines and total
inbound_result(inv, r) ==
    [inv EXCEPT !.received_products = r.received_products,
                !.total_inbound_cost_for_batch = r.total]

\* the inventory after compute_inbound_rates, rate being the outcome of the
\* lookup: the lookup precedes every write
inbound_rated(inv, rate) ==
    IF rate.raised # "" THEN inv
    ELSE inbound_result(inv, inbound_loop(inv.received_products, rate.value, 1, FZero))

compute_inbound_rates(inv) ==
    inbound_rated(inv, get_in_rate_by_size(get_settings, inv.size))

process_inbound(inv) == compute_inbound_rates(assign_size(inv))

\* ------------------------------------------------------------------------
\* app/services/storage.py

\* the partition loop from line i on, with the two running volume sums
RECURSIVE partition_loop(_, _, _, _, _)
\* one pass of the loop: line i, of volume to store v, joins its pool
partition_line(rps, s0, i, regular_vol_sum, large_vol_sum, v) ==
    IF FLtInt(v, s0.STRG_VOL_LIMIT)
    THEN partition_loop(
            [rps EXCEPT ![i].vol_to_store = v, ![i].large_strg_flag = FALSE],
            s0, i + 1, FAdd(regular_vol_sum, v), large_vol_sum)
    ELSE partition_loop(
            [rps EXCEPT ![i].vol_to_store = v, ![i].large_strg_flag = TRUE],
            s0, i + 1, regular_vol_sum, FAdd(large_vol_sum, v))

partition_loop(rps, s0, i, regular_vol_sum, large_vol_sum) ==
    IF i > Len(rps)
    THEN [received_products |-> rps, reg_vol |-> regular_vol_sum, large_vol |-> large_vol_sum]
    ELSE partition_line(rps, s0, i, regular_vol_sum, large_vol_sum,
            FMul(FMulInt(rps[i].product.vol, rps[i].quantity_received), Ratio(13, 10)))

compute_strg_vol_and_flag_for_received_products(rps, s0) ==
    partition_loop(rps, s0, 1, FZero, FZero)

\* a faulty count: a started shelf is not counted
compute_shelves_floor(volume, s0) ==
    IF volume = FZero THEN 0 ELSE FFloor(FDivInt(volume, s0.STRG_UNIT_VOL))

compute_shelves(volume, s0) ==
    IF volume = FZero THEN 0 ELSE FCeil(FDivInt(volume, s0.STRG_UNIT_VOL))

compute_price_of_shelves(shelves, large, s0) ==
    LET rate == IF large THEN s0.STRG_RATE_LRG ELSE s0.STRG_RATE_REG
    IN  FMulInt(rate, shelves)

\* the indices, in order, of the lines whose large_strg_flag is `large`
RECURSIVE pool_indices(_, _, _)
pool_indices(rps, large, i) ==
    IF i > Len(rps) THEN << >>
    ELSE (IF rps[i].large_strg_flag = large THEN <<i>> ELSE << >>)
         \o pool_indices(rps, large, i + 1)

pool_volumes(rps, idx) == [k \in DOMAIN idx |-> rps[idx[k]].vol_to_store]

\* the proration loop over one pool, from its k-th line on
RECURSIVE prorate_pool(_, _, _, _, _, _)
\* a faulty pass: the fee is not taken off the remaining price
prorate_line_keep(rps, idx, k, total_actual_vol, price, remaining_price, fee) ==
    prorate_pool([rps EXCEPT ![idx[k]].total_storage_fee = fee], idx, k + 1,
                 total_actual_vol, price, remaining_price)

\* one pass of the loop: the pool's k-th line is billed fee, which leaves the
\* remaining price
prorate_line(rps, idx, k, total_actual_vol, price, remaining_price, fee) ==
    prorate_pool([rps EXCEPT ![idx[k]].total_storage_fee = fee], idx, k + 1,
                 total_actual_vol, price, FSub(remaining_price, fee))

prorate_pool(rps, idx, k, total_actual_vol, price, remaining_price) ==
    IF k > Len(idx) THEN rps
    ELSE IF FGt(total_actual_vol, FZero)
    THEN prorate_line(rps, idx, k, total_actual_vol, price, remaining_price,
            IF k = Len(idx) THEN remaining_price
            ELSE FMul(FDiv(rps[idx[k]].vol_to_store, total_actual_vol), price))
    ELSE prorate_pool([rps EXCEPT ![idx[k]].total_storage_fee = FZero], idx, k + 1,
                      total_actual_vol, price, remaining_price)

\* the two proration loops, the regular pool first
prorate_pools(rps, regular_products, large_products, regular_price, large_price) ==
    prorate_pool(
        prorate_pool(rps, regular_products, 1, FSum(pool_volumes(rps, regular_products)),
                     regular_price, regular_price),
        large_products, 1, FSum(pool_volumes(rps, large_products)),
        large_price, large_price)

compute_prorata_for_received_products(rps, regular_info, large_info, s0) ==
    prorate_pools(rps, pool_indices(rps, FALSE, 1), pool_indices(rps, TRUE, 1),
                  regular_info.price, large_info.price)

BillingInfo(shelves, price) == [shelves |-> shelves, price |-> price]

\* BillingInfo(shelves, compute_price_of_shelves(shelves, ...))
billing_of(shelves, large, s0) ==
    BillingInfo(shelves, compute_price_of_shelves(shelves, large, s0))

pool_billing(vol, large, s0) ==
    IF FGt(vol, FZero) THEN billing_of(compute_shelves(vol, s0), large, s0)
    ELSE BillingInfo(0, FZero)

\* the annotated lines, the two pools' billing and the batch total
storage_result(part, reg_info, large_info, s0) ==
    [ received_products |->
          compute_prorata_for_received_products(part.received_products,
                                                reg_info, large_info, s0),
      reg_info |-> reg_info,
      large_info |-> large_info,
      total_storage_fee |-> FAdd(reg_info.price, large_info.price) ]

\* the billing of the two pools of a partitioned batch
storage_of_partition(part, s0) ==
    storage_result(part, pool_billing(part.reg_vol, FALSE, s0),
                   pool_billing(part.large_vol, TRUE, s0), s0)

get_storage_fees(rps, s0) ==
    storage_of_partition(compute_strg_vol_and_flag_for_received_products(rps, s0), s0)

\* ------------------------------------------------------------------------
\* app/services/outbound.py

\* most iterations of the while loop of _calc_tiers_fee the model follows
MaxIterations == 12

\* the seed of prev_weight
PREV_WEIGHT_SEED == 55

\* the flat bands of compute_outbound
BAND_S == 5
BAND_M == 15
BAND_L == 55

\* the for loop over the tiers: the first tier, from the k-th on, with
\* remaining >= its threshold; 0 when the loop runs to its else branch
RECURSIVE first_tier(_, _, _)
first_tier(remaining, tiers, k) ==
    IF k > Len(tiers) THEN 0
    ELSE IF FGeInt(remaining, tiers[k][1]) THEN k
    ELSE first_tier(remaining, tiers, k + 1)

\* the locals of _calc_tiers_fee
TierLocals(remaining, fee, prev_weight) ==
    [remaining |-> remaining, fee |-> fee, prev_weight |-> prev_weight]

\* a faulty pass: a hit takes the hit tier's own threshold off remaining
tiers_pass_current(remaining, tiers, fee, prev_weight, k) ==
    IF k # 0
    THEN TierLocals(FSubInt(remaining, tiers[k][1]), FAdd(fee, tiers[k][2]), tiers[k][1])
    ELSE TierLocals(FZero, FAdd(fee, tiers[Len(tiers)][2]), prev_weight)

\* a faulty pass: the else branch leaves remaining as it is
tiers_pass_keep(remaining, tiers, fee, prev_weight, k) ==
    IF k # 0
    THEN TierLocals(FSubInt(remaining, prev_weight), FAdd(fee, tiers[k][2]), tiers[k][1])
    ELSE TierLocals(remaining, FAdd(fee, tiers[Len(tiers)][2]), prev_weight)

\* a faulty pass: the else branch charges the first tier's rate
tiers_pass_top(remaining, tiers, fee, prev_weight, k) ==
    IF k # 0
    THEN TierLocals(FSubInt(remaining, prev_weight), FAdd(fee, tiers[k][2]), tiers[k][1])
    ELSE TierLocals(FZero, FAdd(fee, tiers[1][2]), prev_weight)

\* one pass of the while loop, k being the tier the for loop stopped at (0 when
\* it ran to its else branch): the locals after the pass
tiers_pass(remaining, tiers, fee, prev_weight, k) ==
    IF k # 0
    THEN TierLocals(FSubInt(remaining, prev_weight), FAdd(fee, tiers[k][2]), tiers[k][1])
    ELSE TierLocals(FZero, FAdd(fee, tiers[Len(tiers)][2]), prev_weight)

\* the while loop; returned is FALSE when MaxIterations did not end it
RECURSIVE tiers_loop(_, _, _, _, _)
\* the loop goes on with the locals a pass has left
tiers_next(tiers, locals, n) ==
    tiers_loop(locals.remaining, tiers, locals.fee, locals.prev_weight, n)

tiers_loop(remaining, tiers, fee, prev_weight, n) ==
    IF ~FGt(remaining, FZero) THEN [returned |-> TRUE, fee |-> fee, iterations |-> n]
    ELSE IF n >= MaxIterations THEN [returned |-> FALSE, fee |-> fee, iterations |-> n]
    ELSE tiers_next(tiers,
            tiers_pass(remaining, tiers, fee, prev_weight, first_tier(remaining, tiers, 1)),
            n + 1)

\* a faulty loop: its body runs once before remaining is tested
_calc_tiers_fee_do_while(remaining, s0) ==
    tiers_next(sorted_tiers(s0),
        tiers_pass(remaining, sorted_tiers(s0), FZero, PREV_WEIGHT_SEED,
                   first_tier(remaining, sorted_tiers(s0), 1)),
        1)

_calc_tiers_fee(remaining, s0) ==
    tiers_loop(remaining, sorted_tiers(s0), FZero, PREV_WEIGHT_SEED, 0)

\* floor(a / k) of the float floor division a // k, for k > 0
FloorDivInt(a, k) ==
    IF a[2] >= 0 THEN (a[1] * Pow2(a[2])) \div k
    ELSE IF -a[2] > 2 * Prec THEN (IF a[1] < 0 THEN -1 ELSE 0)
    ELSE a[1] \div (k * Pow2(-a[2]))

\* fee + _calc_tiers_fee(...), when the latter returns
chunks_and_tiers(fee, tiers) ==
    IF tiers.returned THEN Returned(FAdd(fee, tiers.fee)) ELSE Raised("NoReturn")

\* a faulty branch: the chunks are taken off unscaled by the limit
large_order_unscaled(vol_weight, s0, limit, xl, full_chunks) ==
    chunks_and_tiers(FMul(full_chunks, xl),
        _calc_tiers_fee(FSub(vol_weight, full_chunks), s0))

\* the large-order branch, full_chunks being vol_weight // limit
large_order(vol_weight, s0, limit, xl, full_chunks) ==
    chunks_and_tiers(FMul(full_chunks, xl),
        _calc_tiers_fee(FSub(vol_weight, FMulInt(full_chunks, limit)), s0))

\* faulty bands: a weight on a threshold stays in the lower band
compute_outbound_inclusive(vol_weight, s0) ==
    IF ~HasAttr(s0, "XL_VOL_WEIGHT_LIMIT_OUT") THEN Raised("AttributeError")
    ELSE IF FLtInt(vol_weight, s0.XL_VOL_WEIGHT_LIMIT_OUT)
    THEN Returned(IF FLeInt(vol_weight, BAND_S) THEN s0.S_RATE_OUT
                  ELSE IF FLeInt(vol_weight, BAND_M) THEN s0.M_RATE_OUT
                  ELSE IF FLeInt(vol_weight, BAND_L) THEN s0.L_RATE_OUT
                  ELSE s0.XL_RATE_OUT)
    ELSE large_order(vol_weight, s0, s0.XL_VOL_WEIGHT_LIMIT_OUT, s0.XL_RATE_OUT,
                     ToFloat(FloorDivInt(vol_weight, s0.XL_VOL_WEIGHT_LIMIT_OUT)))

compute_outbound(vol_weight, s0) ==
    IF ~HasAttr(s0, "XL_VOL_WEIGHT_LIMIT_OUT") THEN Raised("AttributeError")
    ELSE IF FLtInt(vol_weight, s0.XL_VOL_WEIGHT_LIMIT_OUT)
    THEN Returned(IF FLtInt(vol_weight, BAND_S) THEN s0.S_RATE_OUT
                  ELSE IF FLtInt(vol_weight, BAND_M) THEN s0.M_RATE_OUT
                  ELSE IF FLtInt(vol_weight, BAND_L) THEN s0.L_RATE_OUT
                  ELSE s0.XL_RATE_OUT)
    ELSE large_order(vol_weight, s0, s0.XL_VOL_WEIGHT_LIMIT_OUT, s0.XL_RATE_OUT,
                     ToFloat(FloorDivInt(vol_weight, s0.XL_VOL_WEIGHT_LIMIT_OUT)))

RECURSIVE order_vol_weight(_, _, _)
order_vol_weight(order_products, i, vol_weight_total) ==
    IF i > Len(order_products) THEN vol_weight_total
    ELSE order_vol_weight(order_products, i + 1,
            FAdd(vol_weight_total,
                 FMulInt(order_products[i].product.vol_weight,
                         order_products[i].quantity_ordered)))

\* (order_products, fee), unless compute_outbound raised
single_order_result(order_products, fee) ==
    IF fee.raised # "" THEN fee
    ELSE Returned([products |-> order_products, total |-> fee.value])

get_outbound_fees_for_single_order(order_products, s0) ==
    single_order_result(order_products,
        compute_outbound(order_vol_weight(order_products, 1, FZero), s0))

\* the loop over the simulated sales from line i on, with the running total
RECURSIVE sales_loop(_, _, _, _)
\* line i is billed cost, the total grows by it
sales_billed(sales_products, s0, i, total_monthly_simulation_cost, cost) ==
    sales_loop([sales_products EXCEPT ![i].total_orders_cost_per_product = cost],
               s0, i + 1, FAdd(total_monthly_simulation_cost, cost))

\* a faulty pass: the line is billed one unit, whatever its quantity
sales_line_unit(sales_products, s0, i, total_monthly_simulation_cost, cost_per_single_unit) ==
    IF cost_per_single_unit.raised # "" THEN cost_per_single_unit
    ELSE sales_billed(sales_products, s0, i, total_monthly_simulation_cost,
                      cost_per_single_unit.value)

\* one pass of the loop, unless compute_outbound raised
sales_line(sales_products, s0, i, total_monthly_simulation_cost, cost_per_single_unit) ==
    IF cost_per_single_unit.raised # "" THEN cost_per_single_unit
    ELSE sales_billed(sales_products, s0, i, total_monthly_simulation_cost,
            FMulInt(cost_per_single_unit.value, sales_products[i].quantity_sold))

sales_loop(sales_products, s0, i, total_monthly_simulation_cost) ==
    IF i > Len(sales_products)
    THEN Returned([products |-> sales_products, total |-> total_monthly_simulation_cost])
    ELSE sales_line(sales_products, s0, i, total_monthly_simulation_cost,
            compute_outbound(sales_products[i].product.vol_weight, s0))

get_outbound_fees_for_sales_simulation(sales_products, s0) ==
    sales_loop(sales_products, s0, 1, FZero)

\* ------------------------------------------------------------------------
\* app/models.py

Product(product_id, raw) ==
    [ product_id |-> product_id,
      weight |-> ToFloat(raw.weight),
      height |-> ToFloat(raw.height),
      width  |-> ToFloat(raw.width),
      depth  |-> ToFloat(raw.depth),
      vol_weight |-> FZero,
      vol |-> FZero ]

ReceivedProduct(product, quantity_received) ==
    [ product |-> product,
      quantity_received |-> quantity_received,
      total_inbound_fee |-> FZero,
      total_storage_fee |-> FZero,
      vol_to_store |-> FZero,
      large_strg_flag |-> FALSE ]

OrderProduct(product, quantity_ordered) ==
    [ product |-> product, quantity_ordered |-> quantity_ordered ]

SalesSimulationProduct(product, sales_percentage, quantity_sold) ==
    [ product |-> product,
      sales_percentage |-> sales_percentage,
      quantity_sold |-> quantity_sold,
      total_orders_cost_per_product |-> FZero ]

InitialInventory(received_products) ==
    [ received_products |-> received_products,
      total_inbound_cost_for_batch |-> FZero,
      total_storage_cost_for_batch |-> FZero,
      size |-> "None" ]

\* ------------------------------------------------------------------------
\* app/main.py

\* Product(...) raises KeyError for an item without one of its measurements:
\* the item is skipped with a printed message
has_measurements(p_data) == {"weight", "height", "width", "depth"} \subseteq DOMAIN p_data

\* product ids are fresh uuids: the model numbers a catalog's products 1, 2, ...
catalog_of(products) ==
    apply_volumetrics([i \in DOMAIN products |-> Product(i, products[i])])

process_product_dimensions(raw_products) ==
    catalog_of(SelectSeq(raw_products, has_measurements))

\* what process_product_dimensions prints: the index of each skipped item
RECURSIVE dimension_errors(_, _)
dimension_errors(raw_products, idx) ==
    IF idx > Len(raw_products) THEN << >>
    ELSE (IF has_measurements(raw_products[idx]) THEN << >> ELSE <<idx>>)
         \o dimension_errors(raw_products, idx + 1)

\* product_map.get(product_id): the index of the product, 0 for None
product_map_get(product_catalog, product_id) ==
    IF \E i \in DOMAIN product_catalog : product_catalog[i].product_id = product_id
    THEN CHOOSE i \in DOMAIN product_catalog :
            /\ product_catalog[i].product_id = product_id
            /\ \A j \in DOMAIN product_catalog :
                  product_catalog[j].product_id = product_id => j <= i
    ELSE 0

\* a faulty loop: it stops at the first line whose product is unknown
RECURSIVE received_products_until_unknown(_, _, _)
received_products_until_unknown(product_catalog, raw_quantity_data, i) ==
    IF i > Len(raw_quantity_data) THEN << >>
    ELSE IF product_map_get(product_catalog, raw_quantity_data[i].product_id) = 0
    THEN << >>
    ELSE (IF raw_quantity_data[i].quantity_received > 0
          THEN <<ReceivedProduct(
                    product_catalog[product_map_get(product_catalog,
                                                    raw_quantity_data[i].product_id)],
                    raw_quantity_data[i].quantity_received)>>
          ELSE << >>)
         \o received_products_until_unknown(product_catalog, raw_quantity_data, i + 1)

RECURSIVE received_products_of(_, _, _)
received_products_of(product_catalog, raw_quantity_data, i) ==
    IF i > Len(raw_quantity_data) THEN << >>
    ELSE LET item_data == raw_quantity_data[i]
             k == product_map_get(product_catalog, item_data.product_id)
         IN  (IF k # 0 /\ item_data.quantity_received > 0
              THEN <<ReceivedProduct(product_catalog[k], item_data.quantity_received)>>
              ELSE << >>)
             \o received_products_of(product_catalog, raw_quantity_data, i + 1)

\* the inventory with the storage fees of its lines and their total
inventory_stored(initial_inventory, storage) ==
    [initial_inventory EXCEPT
        !.received_products = storage.received_products,
        !.total_storage_cost_for_batch = storage.total_storage_fee]

\* get_storage_fees on the lines process_inbound has priced
inventory_received(initial_inventory, s0) ==
    inventory_stored(initial_inventory,
                     get_storage_fees(initial_inventory.received_products, s0))

process_initial_inventory(product_catalog, raw_quantity_data) ==
    inventory_received(
        process_inbound(InitialInventory(
            received_products_of(product_catalog, raw_quantity_data, 1))),
        get_settings)

RECURSIVE order_products_of(_, _, _)
order_products_of(product_catalog, raw_order_items, i) ==
    IF i > Len(raw_order_items) THEN << >>
    ELSE LET item_data == raw_order_items[i]
             k == product_map_get(product_catalog, item_data.product_id)
         IN  (IF k # 0 /\ item_data.quantity_ordered > 0
              THEN <<OrderProduct(product_catalog[k], item_data.quantity_ordered)>>
              ELSE << >>)
             \o order_products_of(product_catalog, raw_order_items, i + 1)

\* received_product_map.get(product_id): the last line of that product, 0 for None
received_product_map_get(received_products, product_id) ==
    IF \E i \in DOMAIN received_products : received_products[i].product.product_id = product_id
    THEN CHOOSE i \in DOMAIN received_products :
            /\ received_products[i].product.product_id = product_id
            /\ \A j \in DOMAIN received_products :
                  received_products[j].product.product_id = product_id => j <= i
    ELSE 0

\* math.floor(quantity_received * sales_percentage); the test 0 < quantity_sold < 1
\* is on that int
at_least_one(quantity_sold) ==
    IF 0 < quantity_sold /\ quantity_sold < 1 THEN 1 ELSE quantity_sold

quantity_sold_of(quantity_received, sales_percentage) ==
    at_least_one(FFloor(FMulInt(sales_percentage, quantity_received)))

\* the line appended when quantity_sold > 0
sales_line_sold(product, sales_percentage, quantity_sold) ==
    IF quantity_sold > 0
    THEN <<SalesSimulationProduct(product, sales_percentage, quantity_sold)>>
    ELSE << >>

\* one request line: k and r are what product_map and received_product_map hold
\* for its product id
sales_line_of(product_catalog, initial_inventory, sales_percentage, k, r) ==
    IF k # 0 /\ r # 0 /\ FGt(sales_percentage, FZero)
    THEN sales_line_sold(product_catalog[k], sales_percentage,
            quantity_sold_of(initial_inventory.received_products[r].quantity_received,
                             sales_percentage))
    ELSE << >>

RECURSIVE sales_products_of(_, _, _, _)
sales_products_of(product_catalog, initial_inventory, raw_sales_data, i) ==
    IF i > Len(raw_sales_data) THEN << >>
    ELSE sales_line_of(product_catalog, initial_inventory,
            FDivInt(ToFloat(raw_sales_data[i].sales_percentage), 100),
            product_map_get(product_catalog, raw_sales_data[i].product_id),
            received_product_map_get(initial_inventory.received_products,
                                     raw_sales_data[i].product_id))
         \o sales_products_of(product_catalog, initial_inventory, raw_sales_data, i + 1)

process_order_simulation(simulation_type, data, product_catalog, initial_inventory) ==
    LET s0 == get_settings IN
    IF simulation_type = "single_order"
    THEN get_outbound_fees_for_single_order(
            order_products_of(product_catalog, data, 1), s0)
    ELSE IF simulation_type = "monthly_sales"
    THEN (IF DOMAIN initial_inventory = {} THEN Raised("ValueError")
          ELSE get_outbound_fees_for_sales_simulation(
                  sales_products_of(product_catalog, initial_inventory, data, 1), s0))
    ELSE Raised("ValueError")

\* what main.py prints while it builds the lines of an inventory or an order:
\* a warning for each line whose product id the catalog does not hold
RECURSIVE catalog_warnings(_, _, _)
catalog_warnings(product_catalog, raw_data, i) ==
    IF i > Len(raw_data) THEN << >>
    ELSE (IF product_map_get(product_catalog, raw_data[i].product_id) = 0
          THEN <<[product_id |-> raw_data[i].product_id, missing |-> "catalog"]>>
          ELSE << >>)
         \o catalog_warnings(product_catalog, raw_data, i + 1)

\* what main.py prints while it builds the lines of a sales simulation
RECURSIVE sales_warnings(_, _, _, _)
sales_warnings(product_catalog, initial_inventory, raw_sales_data, i) ==
    IF i > Len(raw_sales_data) THEN << >>
    ELSE (IF product_map_get(product_catalog, raw_sales_data[i].product_id) = 0
          THEN <<[product_id |-> raw_sales_data[i].product_id, missing |-> "catalog"]>>
          ELSE IF received_product_map_get(initial_inventory.received_products,
                                           raw_sales_data[i].product_id) = 0
          THEN <<[product_id |-> raw_sales_data[i].product_id, missing |-> "inventory"]>>
          ELSE << >>)
         \o sales_warnings(product_catalog, initial_inventory, raw_sales_data, i + 1)

\* ------------------------------------------------------------------------
\* Inputs

SeqsUpTo(S, n) == UNION { [1 .. k -> S] : k \in 0 .. n }

\* raw product dimensions of a /details request of a session
RawProducts ==
    { [weight |-> 2, height |-> 10, width |-> 10, depth |-> 10],
      [weight |-> 1, height |-> 20, width |-> 20, depth |-> 20] }

\* a product id no catalog holds
UnknownId == 9

ProductIds == (1 .. MaxProducts) \cup {UnknownId}
RequestQuantities == {1, 10}
SalesPercentages == {5, 50}

RawQuantityLines == [product_id : ProductIds, quantity_received : RequestQuantities]
RawOrderLines == [product_id : ProductIds, quantity_ordered : RequestQuantities]
RawSalesLines == [product_id : ProductIds, sales_percentage : SalesPercentages]

\* the products handed to the pricers: light, bulky, without volume, heavy,
\* small
ServiceRawProducts ==
    << [weight |-> 2, height |-> 10, width |-> 10, depth |-> 10],
       [weight |-> 1, height |-> 20, width |-> 20, depth |-> 20],
       [weight |-> 1, height |-> 10, width |-> 10, depth |-> 0],
       [weight |-> 70, height |-> 10, width |-> 10, depth |-> 10],
       [weight |-> 1, height |-> 5, width |-> 10, depth |-> 10] >>

ServiceCatalog == process_product_dimensions(ServiceRawProducts)
StoredProducts == { ServiceCatalog[i] : i \in 1 .. 3 }
ShippedProducts == { ServiceCatalog[i] : i \in {1, 4} }

ReceivedLines ==
    { ReceivedProduct(p, q) : p \in StoredProducts, q \in 1 .. MaxQuantity }
OrderLines ==
    { OrderProduct(p, q) : p \in ShippedProducts, q \in 1 .. MaxQuantity }
SalesLines ==
    { SalesSimulationProduct(p, Ratio(1, 2), q) : p \in ShippedProducts, q \in 1 .. MaxQuantity }

\* lines as compute_prorata_for_received_products takes them: partitioned
ProrataVolumes == {0, 100, 300, 4000}
ProrataLines ==
    { [ReceivedProduct(ServiceCatalog[1], 1) EXCEPT
          !.vol_to_store = ToFloat(v), !.large_strg_flag = (v >= ENV_STRG_VOL_LIMIT)] :
        v \in ProrataVolumes }
ProrataPrices == {0, 40}

\* items a caller may hand to process_product_dimensions: a valid one, one
\* without depth, one of negative weight, one whose depth is missing
UncheckedRawProducts ==
    { [weight |-> 2, height |-> 10, width |-> 10, depth |-> 10],
      [weight |-> 1, height |-> 10, width |-> 10, depth |-> 0],
      [weight |-> -1, height |-> 10, width |-> 10, depth |-> 10],
      [weight |-> 1, height |-> 10, width |-> 10] }

\* whole weights, weights just below a band or above the limit, and a
\* negative weight
OutboundWeights ==
    { ToFloat(k) : k \in -1 .. MaxWeight }
    \cup { Ratio(9, 2), Ratio(29, 2), Ratio(109, 2), Ratio(121, 2) }

\* ------------------------------------------------------------------------
\* State: the schedule a caller hands to a pricer, the Flask session, the
\* last call and its result, the outbound call before it, and the frames of
\* the calls that run step by step

VARIABLES s, session, request, response, prev, frames

vars == <<s, session, request, response, prev, frames>>

Idle == [route |-> "none"]

\* session[key] = value
SessionSet(key, value) ==
    [k \in DOMAIN session \cup {key} |-> IF k = key THEN value ELSE session[k]]

\* InitialInventory.to_dict() does not keep the size
inventory_to_dict(inv) == [inv EXCEPT !.size = "None"]

\* ------------------------------------------------------------------------
\* app/routes.py: the routes of one session

details(raw_products) ==
    /\ request' = [route |-> "details", data |-> raw_products]
    /\ IF raw_products = << >>
       THEN /\ response' = [status |-> 400]
            /\ UNCHANGED session
       ELSE LET product_catalog == process_product_dimensions(raw_products)
            IN  /\ session' = SessionSet("product_catalog_data", product_catalog)
                /\ response' = [status |-> 200, products |-> product_catalog]
    /\ UNCHANGED <<frames, s, prev>>

calculate_inventory_costs(raw_quantity_data) ==
    /\ request' = [route |-> "calculate_inventory_costs", data |-> raw_quantity_data]
    /\ IF "product_catalog_data" \notin DOMAIN session
       THEN /\ response' = [status |-> 302]
            /\ UNCHANGED session
       ELSE LET initial_inventory ==
                    process_initial_inventory(session["product_catalog_data"],
                                              raw_quantity_data)
            IN  /\ session' = SessionSet("initial_inventory_data",
                                         inventory_to_dict(initial_inventory))
                /\ response' = [status |-> 200, initial_inventory |-> initial_inventory,
                                 stdout |-> catalog_warnings(session["product_catalog_data"],
                                                             raw_quantity_data, 1)]
    /\ UNCHANGED <<frames, s, prev>>

\* the JSON answer to a simulation
simulation_response(r, stdout) ==
    IF r.raised # "" THEN [status |-> 500, raised |-> r.raised, stdout |-> stdout]
    ELSE [status |-> 200, products |-> r.value.products, total |-> r.value.total,
          stdout |-> stdout]

simulate_order(order_items) ==
    /\ request' = [route |-> "simulate_order", data |-> order_items]
    /\ response' =
          IF "product_catalog_data" \notin DOMAIN session THEN [status |-> 404]
          ELSE simulation_response(
                  process_order_simulation("single_order", order_items,
                                           session["product_catalog_data"], << >>),
                  catalog_warnings(session["product_catalog_data"], order_items, 1))
    /\ UNCHANGED <<frames, s, session, prev>>

simulate_monthly_sales(sales_percentages) ==
    /\ request' = [route |-> "simulate_monthly_sales", data |-> sales_percentages]
    /\ response' =
          IF "product_catalog_data" \notin DOMAIN session
             \/ "initial_inventory_data" \notin DOMAIN session
          THEN [status |-> 404]
          ELSE simulation_response(
                  process_order_simulation("monthly_sales", sales_percentages,
                                           session["product_catalog_data"],
                                           session["initial_inventory_data"]),
                  sales_warnings(session["product_catalog_data"],
                                 session["initial_inventory_data"], sales_percentages, 1))
    /\ UNCHANGED <<frames, s, session, prev>>

Init ==
    /\ s = get_settings
    /\ session = << >>
    /\ request = Idle
    /\ response = [status |-> 0]
    /\ prev = Idle
    /\ frames = << >>

Next ==
    \/ \E raw_products \in SeqsUpTo(RawProducts, MaxProducts) : details(raw_products)
    \/ \E raw_quantity_data \in SeqsUpTo(RawQuantityLines, MaxLines) :
          calculate_inventory_costs(raw_quantity_data)
    \/ \E order_items \in SeqsUpTo(RawOrderLines, MaxLines) : simulate_order(order_items)
    \/ \E sales_percentages \in SeqsUpTo(RawSalesLines, MaxLines) :
          simulate_monthly_sales(sales_percentages)

\* the session of the web application
Spec == Init /\ [][Next]_vars

\* ------------------------------------------------------------------------
\* The pricers called on their own, each on inputs of its domain

call_apply_volumetrics(products) ==
    /\ request = Idle
    /\ request' = [route |-> "apply_volumetrics", products |-> products]
    /\ response' = [products |-> apply_volumetrics(products)]
    /\ UNCHANGED <<frames, s, session, prev>>

call_process_product_dimensions(raw_products) ==
    /\ request = Idle
    /\ request' = [route |-> "process_product_dimensions", raw_products |-> raw_products]
    /\ response' = [raised |-> "",
                    products |-> process_product_dimensions(raw_products),
                    stdout |-> dimension_errors(raw_products, 1)]
    /\ UNCHANGED <<frames, s, session, prev>>

\* inventories handed to compute_inbound_rates: new ones of any size or of
\* none, and priced ones restored from a session, which have lost their size
InboundInventories ==
    { [InitialInventory(rps) EXCEPT !.size = z] :
        rps \in SeqsUpTo(ReceivedLines, 2), z \in Size \cup {"None"} }
    \cup { inventory_to_dict(process_inbound(InitialInventory(rps))) :
             rps \in SeqsUpTo(ReceivedLines, 2) }

call_compute_inbound_rates(initial_inventory) ==
    /\ request = Idle
    /\ request' = [route |-> "compute_inbound_rates",
                   initial_inventory |-> initial_inventory]
    /\ response' = [raised |-> get_in_rate_by_size(get_settings,
                                                   initial_inventory.size).raised,
                    initial_inventory |-> compute_inbound_rates(initial_inventory)]
    /\ UNCHANGED <<frames, s, session, prev>>

call_process_inbound(received_products) ==
    /\ request = Idle
    /\ request' = [route |-> "process_inbound", received_products |-> received_products]
    /\ response' = process_inbound(InitialInventory(received_products))
    /\ UNCHANGED <<frames, s, session, prev>>

call_get_storage_fees(received_products) ==
    /\ request = Idle
    /\ request' = [route |-> "get_storage_fees", received_products |-> received_products]
    /\ response' = get_storage_fees(received_products, s)
    /\ UNCHANGED <<frames, s, session, prev>>

call_compute_prorata(received_products, regular_price, large_price) ==
    /\ request = Idle
    /\ request' = [route |-> "compute_prorata", received_products |-> received_products,
                   regular_info |-> BillingInfo(1, ToFloat(regular_price)),
                   large_info |-> BillingInfo(1, ToFloat(large_price))]
    /\ response' = [received_products |->
                        compute_prorata_for_received_products(
                            received_products, BillingInfo(1, ToFloat(regular_price)),
                            BillingInfo(1, ToFloat(large_price)), s)]
    /\ UNCHANGED <<frames, s, session, prev>>

\* a second order may be priced after a first one
MayPriceOrder ==
    \/ request = Idle
    \/ request.route = "compute_outbound" /\ prev = Idle

call_compute_outbound(vol_weight) ==
    /\ MayPriceOrder
    /\ request' = [route |-> "compute_outbound", vol_weight |-> vol_weight]
    /\ response' = compute_outbound(vol_weight, s)
    /\ prev' = IF request = Idle THEN Idle
               ELSE [route |-> "compute_outbound", vol_weight |-> request.vol_weight,
                     response |-> response]
    /\ UNCHANGED <<frames, s, session>>

\* _calc_tiers_fee followed pass by pass: the frame holds its locals and, for
\* each pass made, the locals it started from and the tier it stopped at
enter_calc_tiers_fee(remaining) ==
    /\ request = Idle
    /\ request' = [route |-> "_calc_tiers_fee", remaining |-> remaining]
    /\ frames' = <<[pc |-> "while", passes |-> << >>,
                    locals |-> TierLocals(remaining, FZero, PREV_WEIGHT_SEED)]>>
    /\ UNCHANGED <<s, session, response, prev>>

InTiersLoop ==
    /\ request.route = "_calc_tiers_fee"
    /\ frames[1].pc = "while"

\* the frame after one more pass, which stops at tier k
frame_after_pass(frame, tiers, k) ==
    [frame EXCEPT
        !.passes = Append(@, [locals |-> frame.locals, tier |-> k]),
        !.locals = tiers_pass(frame.locals.remaining, tiers, frame.locals.fee,
                              frame.locals.prev_weight, k)]

calc_tiers_fee_pass ==
    /\ InTiersLoop
    /\ FGt(frames[1].locals.remaining, FZero)
    /\ Len(frames[1].passes) < MaxIterations
    /\ frames' = <<frame_after_pass(frames[1], sorted_tiers(s),
                        first_tier(frames[1].locals.remaining, sorted_tiers(s), 1))>>
    /\ UNCHANGED <<s, session, request, response, prev>>

calc_tiers_fee_return ==
    /\ InTiersLoop
    /\ ~FGt(frames[1].locals.remaining, FZero)
    /\ frames' = <<[frames[1] EXCEPT !.pc = "return"]>>
    /\ response' = Returned(frames[1].locals.fee)
    /\ UNCHANGED <<s, session, request, prev>>

call_single_order(order_products) ==
    /\ request = Idle
    /\ request' = [route |-> "single_order", order_products |-> order_products]
    /\ response' = get_outbound_fees_for_single_order(order_products, s)
    /\ UNCHANGED <<frames, s, session, prev>>

call_sales_simulation(sales_products) ==
    /\ request = Idle
    /\ request' = [route |-> "sales_simulation", sales_products |-> sales_products]
    /\ response' = get_outbound_fees_for_sales_simulation(sales_products, s)
    /\ UNCHANGED <<frames, s, session, prev>>

InitServices ==
    /\ s \in Schedules
    /\ session = << >>
    /\ request = Idle
    /\ response = [status |-> 0]
    /\ prev = Idle
    /\ frames = << >>

NextServices ==
    \/ /\ request = Idle
       /\ \E products \in SeqsUpTo({ Product(1, r) : r \in RawProducts }, 2) :
             call_apply_volumetrics(products)
    \/ /\ request = Idle
       /\ \E raw_products \in SeqsUpTo(UncheckedRawProducts, 2) :
             call_process_product_dimensions(raw_products)
    \/ /\ request = Idle
       /\ \E initial_inventory \in InboundInventories :
             call_compute_inbound_rates(initial_inventory)
    \/ /\ request = Idle
       /\ \E received_products \in SeqsUpTo(ReceivedLines, MaxBatch) :
             call_process_inbound(received_products)
    \/ /\ request = Idle
       /\ \E received_products \in SeqsUpTo(ReceivedLines, MaxBatch) :
             call_get_storage_fees(received_products)
    \/ /\ request = Idle
       /\ \E received_products \in SeqsUpTo(ProrataLines, MaxBatch) :
             \E regular_price \in ProrataPrices, large_price \in ProrataPrices :
                call_compute_prorata(received_products, regular_price, large_price)
    \/ /\ MayPriceOrder
       /\ \E vol_weight \in OutboundWeights : call_compute_outbound(vol_weight)
    \/ /\ request = Idle
       /\ \E remaining \in OutboundWeights : enter_calc_tiers_fee(remaining)
    \/ calc_tiers_fee_pass
    \/ calc_tiers_fee_return
    \/ /\ request = Idle
       /\ \E order_products \in SeqsUpTo(OrderLines, MaxBatch) :
             call_single_order(order_products)
    \/ /\ request = Idle
       /\ \E sales_products \in SeqsUpTo(SalesLines, MaxBatch) :
             call_sales_simulation(sales_products)

SpecServices == InitServices /\ [][NextServices]_vars

\* ------------------------------------------------------------------------
\* Two pricing calls in flight at once, each followed line by line: a frame
\* holds a call's locals and the objects it was handed

\* most lines of the batch or the simulation of such a call
MaxCallLines == 2

CallReceivedLines ==
    { ReceivedProduct(ServiceCatalog[1], 1), ReceivedProduct(ServiceCatalog[2], MaxQuantity) }

CallSalesLines ==
    { SalesSimulationProduct(ServiceCatalog[1], Ratio(1, 2), MaxQuantity),
      SalesSimulationProduct(ServiceCatalog[4], Ratio(1, 2), 1) }

Calls ==
    { [fn |-> "process_inbound", received_products |-> rps] :
        rps \in SeqsUpTo(CallReceivedLines, MaxCallLines) }
    \cup { [fn |-> "sales_simulation", sales_products |-> sps] :
             sps \in SeqsUpTo(CallSalesLines, MaxCallLines) }

\* the frame of a call at its entry
call_frame(call) ==
    IF call.fn = "process_inbound"
    THEN [fn |-> "process_inbound", pc |-> "assign_size", i |-> 1,
          initial_inventory |-> InitialInventory(call.received_products),
          total_vol_weight_in |-> FZero, rate |-> FZero, total |-> FZero, raised |-> ""]
    ELSE [fn |-> "sales_simulation", pc |-> "loop", i |-> 1,
          sales_products |-> call.sales_products, total |-> FZero, raised |-> ""]

\* compute_inbound_rates once its rate lookup has given `rate`
inbound_rate_step(frame, rate) ==
    IF rate.raised # "" THEN [frame EXCEPT !.pc = "raised", !.raised = rate.raised]
    ELSE [frame EXCEPT !.pc = "fees", !.rate = rate.value]

\* a faulty step: every line is billed at bucket S's rate
inbound_fee_step_smallest(frame, fee) ==
    [frame EXCEPT
        !.initial_inventory.received_products[frame.i].total_inbound_fee =
            FMul(FMulInt(get_settings.IN_TIERS["S"][2],
                         frame.initial_inventory.received_products[frame.i].quantity_received),
                 frame.initial_inventory.received_products[frame.i].product.vol_weight),
        !.total = FAdd(@, fee),
        !.i = @ + 1]

\* line i of the batch is billed fee
inbound_fee_step(frame, fee) ==
    [frame EXCEPT !.initial_inventory.received_products[frame.i].total_inbound_fee = fee,
                  !.total = FAdd(@, fee),
                  !.i = @ + 1]

\* the next step of process_inbound: a line of assign_size's loop, the size,
\* the rate lookup, a line of compute_inbound_rates' loop, the total
inbound_step(frame, rps) ==
    IF frame.pc = "assign_size" /\ frame.i <= Len(rps)
    THEN [frame EXCEPT
             !.total_vol_weight_in =
                 FAdd(@, FMulInt(rps[frame.i].product.vol_weight,
                                 rps[frame.i].quantity_received)),
             !.i = @ + 1]
    ELSE IF frame.pc = "assign_size"
    THEN [frame EXCEPT
             !.initial_inventory.size = size_of(frame.total_vol_weight_in, get_settings),
             !.pc = "compute_inbound_rates", !.i = 1]
    ELSE IF frame.pc = "compute_inbound_rates"
    THEN inbound_rate_step(frame,
             get_in_rate_by_size(get_settings, frame.initial_inventory.size))
    ELSE IF frame.i <= Len(rps)
    THEN inbound_fee_step(frame,
             FMul(FMulInt(frame.rate, rps[frame.i].quantity_received),
                  rps[frame.i].product.vol_weight))
    ELSE [frame EXCEPT
             !.initial_inventory.total_inbound_cost_for_batch = frame.total,
             !.pc = "done"]

\* line i of the simulation, cost being what compute_outbound gave for one unit
sales_cost_step(frame, cost, quantity_sold) ==
    IF cost.raised # "" THEN [frame EXCEPT !.pc = "raised", !.raised = cost.raised]
    ELSE [frame EXCEPT
             !.sales_products[frame.i].total_orders_cost_per_product =
                 FMulInt(cost.value, quantity_sold),
             !.total = FAdd(@, FMulInt(cost.value, quantity_sold)),
             !.i = @ + 1]

\* the next step of get_outbound_fees_for_sales_simulation: a line, or the return
sales_step(frame, s0) ==
    IF frame.i <= Len(frame.sales_products)
    THEN sales_cost_step(frame,
             compute_outbound(frame.sales_products[frame.i].product.vol_weight, s0),
             frame.sales_products[frame.i].quantity_sold)
    ELSE [frame EXCEPT !.pc = "done"]

\* a faulty step: the running total is one variable shared by the calls
calls_after_step_shared(calls, k, frame) ==
    [j \in DOMAIN calls |->
        IF j = k THEN frame ELSE [calls[j] EXCEPT !.total = frame.total]]

\* a step of call k touches the locals and the objects of that call only
calls_after_step(calls, k, frame) == [calls EXCEPT ![k] = frame]

begin_calls(first, second) ==
    /\ request = Idle
    /\ request' = [route |-> "calls", calls |-> <<first, second>>]
    /\ frames' = <<call_frame(first), call_frame(second)>>
    /\ UNCHANGED <<s, session, response, prev>>

call_step(k) ==
    /\ request.route = "calls"
    /\ frames[k].pc \notin {"done", "raised"}
    /\ frames' = calls_after_step(frames, k,
                     IF frames[k].fn = "process_inbound"
                     THEN inbound_step(frames[k],
                                       frames[k].initial_inventory.received_products)
                     ELSE sales_step(frames[k], s))
    /\ UNCHANGED <<s, session, request, response, prev>>

InitCalls ==
    /\ s \in Schedules
    /\ session = << >>
    /\ request = Idle
    /\ response = [status |-> 0]
    /\ prev = Idle
    /\ frames = << >>

NextCalls ==
    \/ /\ request = Idle
       /\ \E first \in Calls, second \in Calls : begin_calls(first, second)
    \/ \E k \in 1 .. 2 : call_step(k)

SpecCalls == InitCalls /\ [][NextCalls]_vars

\* ------------------------------------------------------------------------
\* process_initial_inventory on the lines it has built, followed step by
\* step: process_inbound, then get_storage_fees line by line. The frame holds
\* the locals of get_storage_fees and of the two functions it calls, the
\* inventory whose lines they write in place, and the divisions made so far.

\* the lines of a batch: one or two units of the light, the bulky, the
\* volumeless and the small product
InventoryLines ==
    { ReceivedProduct(ServiceCatalog[p], q) : p \in {1, 2, 3, 5}, q \in 1 .. 2 }

\* the frame once the lines are built and the container populated
inventory_frame(received_products) ==
    [ pc |-> "process_inbound", i |-> 1,
      initial_inventory |-> InitialInventory(received_products),
      regular_vol_sum |-> FZero, large_vol_sum |-> FZero,
      reg_info |-> BillingInfo(0, FZero), large_info |-> BillingInfo(0, FZero),
      regular_products |-> << >>, large_products |-> << >>,
      total_actual_regular_vol |-> FZero, total_actual_large_vol |-> FZero,
      remaining_regular_price |-> FZero, remaining_large_price |-> FZero,
      total_storage_fee |-> FZero,
      divisions |-> << >> ]

\* a faulty pass: a volume equal to the limit stays in the regular pool
partition_step_strict(frame, s0, v) ==
    IF FLeInt(v, s0.STRG_VOL_LIMIT)
    THEN [frame EXCEPT
             !.initial_inventory.received_products[frame.i].vol_to_store = v,
             !.initial_inventory.received_products[frame.i].large_strg_flag = FALSE,
             !.regular_vol_sum = FAdd(@, v),
             !.i = @ + 1]
    ELSE [frame EXCEPT
             !.initial_inventory.received_products[frame.i].vol_to_store = v,
             !.initial_inventory.received_products[frame.i].large_strg_flag = TRUE,
             !.large_vol_sum = FAdd(@, v),
             !.i = @ + 1]

\* one pass of the partition loop: line i, of volume to store v
partition_step(frame, s0, v) ==
    IF FLtInt(v, s0.STRG_VOL_LIMIT)
    THEN [frame EXCEPT
             !.initial_inventory.received_products[frame.i].vol_to_store = v,
             !.initial_inventory.received_products[frame.i].large_strg_flag = FALSE,
             !.regular_vol_sum = FAdd(@, v),
             !.i = @ + 1]
    ELSE [frame EXCEPT
             !.initial_inventory.received_products[frame.i].vol_to_store = v,
             !.initial_inventory.received_products[frame.i].large_strg_flag = TRUE,
             !.large_vol_sum = FAdd(@, v),
             !.i = @ + 1]

\* the division compute_shelves makes for a pool of volume vol, if it makes one
shelves_division(vol, large, s0) ==
    IF FGt(vol, FZero) /\ vol # FZero
    THEN <<[large |-> large, dividend |-> vol, divisor |-> ToFloat(s0.STRG_UNIT_VOL)]>>
    ELSE << >>

\* the billing of the two pools
billing_step(frame, s0) ==
    [frame EXCEPT
        !.reg_info = pool_billing(frame.regular_vol_sum, FALSE, s0),
        !.large_info = pool_billing(frame.large_vol_sum, TRUE, s0),
        !.divisions = @ \o shelves_division(frame.regular_vol_sum, FALSE, s0)
                        \o shelves_division(frame.large_vol_sum, TRUE, s0),
        !.pc = "pools"]

\* the two lists of compute_prorata_for_received_products and their volumes
pools_step(frame, rps) ==
    [frame EXCEPT
        !.regular_products = pool_indices(rps, FALSE, 1),
        !.large_products = pool_indices(rps, TRUE, 1),
        !.total_actual_regular_vol = FSum(pool_volumes(rps, pool_indices(rps, FALSE, 1))),
        !.total_actual_large_vol = FSum(pool_volumes(rps, pool_indices(rps, TRUE, 1))),
        !.remaining_regular_price = frame.reg_info.price,
        !.pc = "prorata_regular", !.i = 1]

\* the fee of a pool's line of volume v: the remaining price for the last
\* line, its share of the price for another
prorata_fee(v, total_actual_vol, price, remaining_price, last) ==
    IF last THEN remaining_price ELSE FMul(FDiv(v, total_actual_vol), price)

\* a faulty pass: the storage fee is written over the line's inbound fee too
prorata_step_overwrite(frame, large, k, total_actual_vol, fee) ==
    [frame EXCEPT
        !.initial_inventory.received_products[k].total_storage_fee = fee,
        !.initial_inventory.received_products[k].total_inbound_fee = fee,
        !.remaining_regular_price = IF large THEN @ ELSE FSub(@, fee),
        !.remaining_large_price = IF large THEN FSub(@, fee) ELSE @,
        !.i = @ + 1]

\* one pass of a proration loop: line k of the batch, the pool's i-th
prorata_step(frame, large, k, total_actual_vol, fee) ==
    IF FGt(total_actual_vol, FZero)
    THEN [frame EXCEPT
             !.initial_inventory.received_products[k].total_storage_fee = fee,
             !.remaining_regular_price = IF large THEN @ ELSE FSub(@, fee),
             !.remaining_large_price = IF large THEN FSub(@, fee) ELSE @,
             !.divisions = Append(@, [large |-> large,
                 dividend |-> frame.initial_inventory.received_products[k].vol_to_store,
                 divisor |-> total_actual_vol]),
             !.i = @ + 1]
    ELSE [frame EXCEPT
             !.initial_inventory.received_products[k].total_storage_fee = FZero,
             !.i = @ + 1]

\* the next step of get_storage_fees and of the two assignments that follow it
storage_step(frame, s0, rps) ==
    IF frame.pc = "partition" /\ frame.i <= Len(rps)
    THEN partition_step(frame, s0,
             FMul(FMulInt(rps[frame.i].product.vol, rps[frame.i].quantity_received),
                  Ratio(13, 10)))
    ELSE IF frame.pc = "partition" THEN [frame EXCEPT !.pc = "billing"]
    ELSE IF frame.pc = "billing" THEN billing_step(frame, s0)
    ELSE IF frame.pc = "pools" THEN pools_step(frame, rps)
    ELSE IF frame.pc = "prorata_regular" /\ frame.i <= Len(frame.regular_products)
    THEN prorata_step(frame, FALSE, frame.regular_products[frame.i],
             frame.total_actual_regular_vol,
             prorata_fee(rps[frame.regular_products[frame.i]].vol_to_store,
                         frame.total_actual_regular_vol, frame.reg_info.price,
                         frame.remaining_regular_price,
                         frame.i = Len(frame.regular_products)))
    ELSE IF frame.pc = "prorata_regular"
    THEN [frame EXCEPT !.remaining_large_price = frame.large_info.price,
                       !.pc = "prorata_large", !.i = 1]
    ELSE IF frame.pc = "prorata_large" /\ frame.i <= Len(frame.large_products)
    THEN prorata_step(frame, TRUE, frame.large_products[frame.i],
             frame.total_actual_large_vol,
             prorata_fee(rps[frame.large_products[frame.i]].vol_to_store,
                         frame.total_actual_large_vol, frame.large_info.price,
                         frame.remaining_large_price,
                         frame.i = Len(frame.large_products)))
    ELSE IF frame.pc = "prorata_large"
    THEN [frame EXCEPT
             !.total_storage_fee = FAdd(frame.reg_info.price, frame.large_info.price),
             !.pc = "return"]
    ELSE [frame EXCEPT
             !.initial_inventory.total_storage_cost_for_batch = frame.total_storage_fee,
             !.pc = "done"]

begin_initial_inventory(received_products) ==
    /\ request = Idle
    /\ request' = [route |-> "process_initial_inventory",
                   received_products |-> received_products]
    /\ frames' = <<inventory_frame(received_products)>>
    /\ UNCHANGED <<s, session, response, prev>>

\* process_inbound(initial_inventory)
inventory_inbound_step ==
    /\ request.route = "process_initial_inventory"
    /\ frames[1].pc = "process_inbound"
    /\ frames' = <<[frames[1] EXCEPT
                       !.initial_inventory = process_inbound(@),
                       !.pc = "partition"]>>
    /\ UNCHANGED <<s, session, request, response, prev>>

inventory_storage_step ==
    /\ request.route = "process_initial_inventory"
    /\ frames[1].pc \notin {"process_inbound", "done"}
    /\ frames' = <<storage_step(frames[1], s,
                                frames[1].initial_inventory.received_products)>>
    /\ response' = IF frames[1].pc = "return"
                   THEN Returned(frames'[1].initial_inventory)
                   ELSE response
    /\ UNCHANGED <<s, session, request, prev>>

InitInventory ==
    /\ s = get_settings
    /\ session = << >>
    /\ request = Idle
    /\ response = [status |-> 0]
    /\ prev = Idle
    /\ frames = << >>

NextInventory ==
    \/ /\ request = Idle
       /\ \E received_products \in SeqsUpTo(InventoryLines, MaxBatch) :
             begin_initial_inventory(received_products)
    \/ inventory_inbound_step
    \/ inventory_storage_step

SpecInventory == InitInventory /\ [][NextInventory]_vars

\* ------------------------------------------------------------------------
\* Properties

\* the lines of one storage pool, in the order of the batch
PoolLines(rps, large) == SelectSeq(rps, LAMBDA rp : rp.large_strg_flag = large)

StorageFees(lines) == [k \in DOMAIN lines |-> lines[k].total_storage_fee]
StoredVolumes(lines) == [k \in DOMAIN lines |-> lines[k].vol_to_store]

\* the exact (unrounded) sum of the floats xs equals the float total
LowestExp(xs) ==
    CHOOSE e \in { xs[i][2] : i \in DOMAIN xs } : \A i \in DOMAIN xs : e <= xs[i][2]

RECURSIVE ScaledSum(_, _, _)
ScaledSum(xs, lo, i) ==
    IF i > Len(xs) THEN 0
    ELSE xs[i][1] * Pow2(xs[i][2] - lo) + ScaledSum(xs, lo, i + 1)

ExactSumEquals(xs, total) ==
    ScaledSum(xs, LowestExp(xs \o <<total>>), 1)
        = total[1] * Pow2(total[2] - LowestExp(xs \o <<total>>))

\* price minus the fees of the lines before the k-th, taken off one by one
RECURSIVE PriceLeft(_, _, _)
PriceLeft(price, fees, k) ==
    IF k <= 1 THEN price ELSE FSub(PriceLeft(price, fees, k - 1), fees[k - 1])

PoolHasVolume(lines) == \E k \in DOMAIN lines : FGt(lines[k].vol_to_store, FZero)

StorageInfo(large) == IF large THEN response.large_info ELSE response.reg_info

\* C1: after get_storage_fees, in each pool that holds a line of positive
\* volume, the storage fees of the pool's lines add up to the pool's shelf fee
\* (shelves x pool rate): as the float sum in the order of the lines, or at
\* least as the exact sum of the fees.
C1_PoolFeesSumToShelfFee ==
    request.route = "get_storage_fees" =>
        \A large \in BOOLEAN :
            PoolHasVolume(PoolLines(response.received_products, large)) =>
                \/ FSum(StorageFees(PoolLines(response.received_products, large)))
                      = StorageInfo(large).price
                \/ ExactSumEquals(StorageFees(PoolLines(response.received_products, large)),
                                  StorageInfo(large).price)

\* a pool of lines prorated against price follows the proration rule
ProratedAs(lines, price) ==
    \A k \in DOMAIN lines :
        lines[k].total_storage_fee =
            IF k < Len(lines)
            THEN FMul(FDiv(lines[k].vol_to_store, FSum(StoredVolumes(lines))), price)
            ELSE PriceLeft(price, StorageFees(lines), k)

\* C2: within one pool of positive volume, every line but the last is billed
\* (vol_to_store / the pool's actual summed volume) x pool fee, and the last
\* line is billed the pool fee minus the fees already assigned; volumes 100
\* and 300 under a pool fee of 40 are billed 10 and 30.
C2_ProrationRule ==
    /\ request.route = "get_storage_fees" =>
          \A large \in BOOLEAN :
              PoolHasVolume(PoolLines(response.received_products, large)) =>
                  ProratedAs(PoolLines(response.received_products, large),
                             StorageInfo(large).price)
    /\ request.route = "compute_prorata" =>
          /\ PoolHasVolume(PoolLines(response.received_products, FALSE)) =>
                ProratedAs(PoolLines(response.received_products, FALSE),
                           request.regular_info.price)
          /\ PoolHasVolume(PoolLines(response.received_products, TRUE)) =>
                ProratedAs(PoolLines(response.received_products, TRUE),
                           request.large_info.price)
          /\ (/\ StoredVolumes(request.received_products) = <<ToFloat(100), ToFloat(300)>>
              /\ request.regular_info.price = ToFloat(40))
             => StorageFees(response.received_products) = <<ToFloat(10), ToFloat(30)>>

C2_Witness ==
    /\ request.route = "compute_prorata"
    /\ StoredVolumes(request.received_products) = <<ToFloat(100), ToFloat(300)>>
    /\ request.regular_info.price = ToFloat(40)
    /\ StorageFees(response.received_products) = <<ToFloat(10), ToFloat(30)>>

InboundFees(lines) == [k \in DOMAIN lines |-> lines[k].total_inbound_fee]

\* C3: after process_inbound, the batch's total inbound cost is the sum of the
\* inbound fees of its lines, and 0 for a batch without lines.
C3_InboundTotalIsSumOfLines ==
    request.route = "process_inbound" =>
        /\ response.total_inbound_cost_for_batch
              = FSum(InboundFees(response.received_products))
        /\ request.received_products = << >> =>
              response.total_inbound_cost_for_batch = FZero

C3_Witness ==
    /\ request.route = "process_inbound"
    /\ Len(response.received_products) >= 2
    /\ \A k \in DOMAIN response.received_products :
          FGt(response.received_products[k].total_inbound_fee, FZero)
    /\ response.total_inbound_cost_for_batch
          = FSum(InboundFees(response.received_products))

\* the total volumetric weight of a batch: the sum of vol_weight x quantity
TotalVolWeight(lines) ==
    FSum([k \in DOMAIN lines |->
            FMulInt(lines[k].product.vol_weight, lines[k].quantity_received)])

\* C4: the inbound bucket is chosen by strictly-greater-than tests from the
\* largest boundary down: XL above the XL limit, else L above the L limit,
\* else M above the M limit, else S; a total equal to a boundary is in the
\* lower bucket.
C4_BucketByStrictComparison ==
    request.route = "process_inbound" =>
        response.size =
            IF FGtInt(TotalVolWeight(request.received_products), ENV_XL_VOL_WEIGHT_LIMIT_IN)
            THEN "XL"
            ELSE IF FGtInt(TotalVolWeight(request.received_products),
                           ENV_L_VOL_WEIGHT_LIMIT_IN)
            THEN "L"
            ELSE IF FGtInt(TotalVolWeight(request.received_products),
                           ENV_M_VOL_WEIGHT_LIMIT_IN)
            THEN "M"
            ELSE "S"

\* a batch whose total is exactly the M limit is in bucket S
C4_Witness ==
    /\ request.route = "process_inbound"
    /\ FEqInt(TotalVolWeight(request.received_products), ENV_M_VOL_WEIGHT_LIMIT_IN)
    /\ response.size = "S"

\* v is the larger of the floats a and b
IsMax(v, a, b) == v \in {a, b} /\ FGe(v, a) /\ FGe(v, b)

\* C5: after apply_volumetrics every item has vol = height x width x depth and
\* vol_weight = max(weight, vol / DIVISOR) of that vol, hence vol_weight >=
\* weight; 10 x 10 x 10 of weight 2 under DIVISOR 5000 has vol_weight 2.
C5_Volumetrics ==
    request.route = "apply_volumetrics" =>
        /\ Len(response.products) = Len(request.products)
        /\ \A i \in DOMAIN response.products :
              /\ response.products[i].vol
                    = FMul(FMul(request.products[i].height, request.products[i].width),
                           request.products[i].depth)
              /\ IsMax(response.products[i].vol_weight, request.products[i].weight,
                       FDivInt(response.products[i].vol, ENV_DIVISOR))
              /\ FGe(response.products[i].vol_weight, request.products[i].weight)
              /\ (/\ request.products[i].height = ToFloat(10)
                  /\ request.products[i].width = ToFloat(10)
                  /\ request.products[i].depth = ToFloat(10)
                  /\ request.products[i].weight = ToFloat(2)
                  /\ ENV_DIVISOR = 5000)
                 => response.products[i].vol_weight = ToFloat(2)

\* one item keeps its weight, another takes its dimensional weight
C5_Witness ==
    /\ request.route = "apply_volumetrics"
    /\ \E i \in DOMAIN response.products :
          /\ response.products[i].vol = ToFloat(1000)
          /\ response.products[i].vol_weight = ToFloat(2)
    /\ \E i \in DOMAIN response.products :
          FGt(response.products[i].vol_weight, request.products[i].weight)

\* C6: outbound pricing is monotonically non-decreasing in the aggregate
\* volumetric weight: of two orders priced under one schedule, the heavier
\* is not charged less.
C6_OutboundMonotone ==
    (/\ request.route = "compute_outbound"
     /\ prev # Idle
     /\ prev.response.raised = ""
     /\ response.raised = ""
     /\ FLe(prev.vol_weight, request.vol_weight))
    => FLe(prev.response.value, response.value)

\* C7: below the large-order limit compute_outbound returns one flat rate by
\* the thresholds 5, 15, 55: below 5 the S rate, from 5 to below 15 the M
\* rate, from 15 to below 55 the L rate, from 55 on the XL rate; weight 3 is
\* charged the S rate.
C7_FlatBands ==
    (/\ request.route = "compute_outbound"
     /\ HasAttr(s, "XL_VOL_WEIGHT_LIMIT_OUT")
     /\ FLtInt(request.vol_weight, s.XL_VOL_WEIGHT_LIMIT_OUT))
    => /\ response.raised = ""
       /\ FLtInt(request.vol_weight, 5) => response.value = ToFloat(ENV_S_RATE_OUT)
       /\ FGeInt(request.vol_weight, 5) /\ FLtInt(request.vol_weight, 15)
             => response.value = ToFloat(ENV_M_RATE_OUT)
       /\ FGeInt(request.vol_weight, 15) /\ FLtInt(request.vol_weight, 55)
             => response.value = ToFloat(ENV_L_RATE_OUT)
       /\ FGeInt(request.vol_weight, 55) => response.value = ToFloat(ENV_XL_RATE_OUT)
       /\ request.vol_weight = ToFloat(3) => response.value = ToFloat(ENV_S_RATE_OUT)

\* a weight on a threshold is charged the upper band's rate
C7_Witness ==
    /\ request.route = "compute_outbound"
    /\ HasAttr(s, "XL_VOL_WEIGHT_LIMIT_OUT")
    /\ request.vol_weight = ToFloat(15)
    /\ response.raised = ""
    /\ response.value = ToFloat(ENV_L_RATE_OUT)
    /\ prev # Idle
    /\ prev.vol_weight = ToFloat(3)
    /\ prev.response.value = ToFloat(ENV_S_RATE_OUT)

\* the received line the session's inventory holds for a product id, 0 for none
ReceivedIndex(product_id) ==
    received_product_map_get(session["initial_inventory_data"].received_products,
                             product_id)

InCatalog(product_id) == product_map_get(session["product_catalog_data"], product_id) # 0

\* C8: in the sales simulation, a line whose fraction is > 0 and whose
\* quantity_received x fraction floors to 0 is simulated with quantity_sold = 1:
\* it is neither omitted nor sold 0 times (10 received at 5% sells 1).
C8_QuantityForcedToOne ==
    (request.route = "simulate_monthly_sales" /\ response.status = 200) =>
        \A i \in DOMAIN request.data :
            (/\ InCatalog(request.data[i].product_id)
             /\ ReceivedIndex(request.data[i].product_id) # 0
             /\ request.data[i].sales_percentage > 0
             /\ session["initial_inventory_data"]
                    .received_products[ReceivedIndex(request.data[i].product_id)]
                    .quantity_received * request.data[i].sales_percentage < 100)
            => \E j \in DOMAIN response.products :
                  /\ response.products[j].product.product_id = request.data[i].product_id
                  /\ response.products[j].quantity_sold = 1

\* the fee of a one-unit order of the i-th simulated line
UnitFee(i) == compute_outbound(request.sales_products[i].product.vol_weight, s)

\* C9: in the sales simulation each line's total is quantity_sold x
\* compute_outbound(the item's vol_weight), whatever the other lines are, and
\* the grand total is the sum of the lines' totals; the simulation fails
\* when the pricing of a line does.
C9_SalesSimulationTotals ==
    request.route = "sales_simulation" =>
        IF \E i \in DOMAIN request.sales_products : UnitFee(i).raised # ""
        THEN response.raised # ""
        ELSE /\ response.raised = ""
             /\ Len(response.value.products) = Len(request.sales_products)
             /\ \A i \in DOMAIN request.sales_products :
                   response.value.products[i] =
                       [request.sales_products[i] EXCEPT
                           !.total_orders_cost_per_product =
                               FMulInt(UnitFee(i).value,
                                       request.sales_products[i].quantity_sold)]
             /\ response.value.total =
                   FSum([i \in DOMAIN response.value.products |->
                           response.value.products[i].total_orders_cost_per_product])

\* two lines of different items, each sold more than once
C9_Witness ==
    /\ request.route = "sales_simulation"
    /\ response.raised = ""
    /\ Len(response.value.products) = 2
    /\ response.value.products[1].product # response.value.products[2].product
    /\ \A i \in 1 .. 2 :
          /\ response.value.products[i].quantity_sold >= 2
          /\ FGt(response.value.products[i].total_orders_cost_per_product, FZero)
    /\ FGt(response.value.total, response.value.products[1].total_orders_cost_per_product)

\* the lines of a request whose product the catalog holds
KnownLines(data) == SelectSeq(data, LAMBDA line : InCatalog(line.product_id))

\* the lines of a sales request whose product the catalog and the inventory hold
SoldLines(data) ==
    SelectSeq(data, LAMBDA line :
        InCatalog(line.product_id) /\ ReceivedIndex(line.product_id) # 0)

\* the product ids the printed warnings name, in order
WarnedIds == [k \in DOMAIN response.stdout |-> response.stdout[k].product_id]

LineIds(data) == [k \in DOMAIN data |-> data[k].product_id]

\* C10: a request line whose product id is not in the catalog (for the sales
\* simulation, not in the received inventory either) is skipped with a warning
\* for that line, and the other lines are processed: the outcome is that of
\* the same request without the unknown lines, wherever these stand.
C10_UnknownLinesSkipped ==
    /\ (request.route = "calculate_inventory_costs" /\ response.status = 200) =>
          /\ response.initial_inventory =
                process_initial_inventory(session["product_catalog_data"],
                                          KnownLines(request.data))
          /\ [k \in DOMAIN response.initial_inventory.received_products |->
                    response.initial_inventory.received_products[k].product.product_id]
                = LineIds(KnownLines(request.data))
          /\ WarnedIds
                = LineIds(SelectSeq(request.data, LAMBDA line : ~InCatalog(line.product_id)))
    /\ (request.route = "simulate_order" /\ response.status \in {200, 500}) =>
          /\ order_products_of(session["product_catalog_data"], request.data, 1)
                = order_products_of(session["product_catalog_data"],
                                    KnownLines(request.data), 1)
          /\ response =
                simulation_response(
                    process_order_simulation("single_order", KnownLines(request.data),
                                             session["product_catalog_data"], << >>),
                    response.stdout)
          /\ WarnedIds
                = LineIds(SelectSeq(request.data, LAMBDA line : ~InCatalog(line.product_id)))
    /\ (request.route = "simulate_monthly_sales" /\ response.status \in {200, 500}) =>
          /\ sales_products_of(session["product_catalog_data"],
                               session["initial_inventory_data"], request.data, 1)
                = sales_products_of(session["product_catalog_data"],
                                    session["initial_inventory_data"],
                                    SoldLines(request.data), 1)
          /\ response =
                simulation_response(
                    process_order_simulation("monthly_sales", SoldLines(request.data),
                                             session["product_catalog_data"],
                                             session["initial_inventory_data"]),
                    response.stdout)
          /\ WarnedIds
                = LineIds(SelectSeq(request.data, LAMBDA line :
                            ~(InCatalog(line.product_id)
                              /\ ReceivedIndex(line.product_id) # 0)))

\* an unknown line ahead of a known one: the known one is received and priced
C10_Witness ==
    /\ request.route = "calculate_inventory_costs"
    /\ response.status = 200
    /\ Len(request.data) = 2
    /\ request.data[1].product_id = UnknownId
    /\ request.data[2].product_id # UnknownId
    /\ Len(response.initial_inventory.received_products) = 1
    /\ response.initial_inventory.received_products[1].quantity_received
          = request.data[2].quantity_received
    /\ FGt(response.initial_inventory.total_inbound_cost_for_batch, FZero)
    /\ FGt(response.initial_inventory.total_storage_cost_for_batch, FZero)
    /\ Len(response.stdout) = 1

\* the measurements of an item are all positive
PositiveMeasurements(p) ==
    /\ FGt(p.weight, FZero)
    /\ FGt(p.height, FZero)
    /\ FGt(p.width, FZero)
    /\ FGt(p.depth, FZero)

\* C11: invalid numeric input is reported to the caller as a validation error
\* and nothing is priced from it: process_product_dimensions fails when an
\* item lacks a measurement or has a non-positive one, no item of non-positive
\* dimension or weight is in a catalog with its volumetrics, and
\* compute_outbound returns no fee for a negative weight.
C11_InvalidInputRejected ==
    /\ request.route = "process_product_dimensions" =>
          /\ (\E i \in DOMAIN request.raw_products :
                  ~has_measurements(request.raw_products[i]))
                => response.raised # ""
          /\ response.raised = "" =>
                \A i \in DOMAIN response.products :
                    PositiveMeasurements(response.products[i])
    /\ (request.route = "compute_outbound" /\ FLt(request.vol_weight, FZero))
          => response.raised # ""

\* the thresholds of the schedule's outbound tiers are all positive
PositiveTiers(s0) ==
    /\ s0.L_VOL_WEIGHT_LIMIT_OUT > 0
    /\ s0.M_VOL_WEIGHT_LIMIT_OUT > 0
    /\ s0.S_VOL_WEIGHT_LIMIT_OUT > 0

OutboundCalls == {"compute_outbound", "single_order", "sales_simulation"}

\* C12: a schedule with a zero or negative tier threshold is rejected with a
\* ConfigurationError before any pricing call runs: no outbound call under
\* such a schedule returns a fee, and none enters a tiered-remainder loop
\* that does not end.
C12_BadScheduleRejected ==
    request.route \in OutboundCalls =>
        /\ ~PositiveTiers(s) => response.raised = "ConfigurationError"
        /\ response.raised # "NoReturn"

C14_LoaderScheduleComplete ==
    /\ (/\ request.route = "simulate_order"
        /\ response.status # 404
        /\ KnownLines(request.data) # << >>)
       => /\ response.status = 200
          /\ FGt(response.total, FZero)
    /\ (/\ request.route = "simulate_monthly_sales"
        /\ response.status # 404)
       => response.status = 200

\* the passes made by the _calc_tiers_fee call in flight, and the locals the
\* j-th of them has left
Passes == frames[1].passes

LocalsAfter(j) == IF j < Len(Passes) THEN Passes[j + 1].locals ELSE frames[1].locals

\* the (threshold, rate) tiers of a schedule, those whose threshold a remainder
\* reaches, and the tiers of highest and of lowest threshold among some
TierSet(s0) ==
    { <<s0.L_VOL_WEIGHT_LIMIT_OUT, s0.L_RATE_OUT>>,
      <<s0.M_VOL_WEIGHT_LIMIT_OUT, s0.M_RATE_OUT>>,
      <<s0.S_VOL_WEIGHT_LIMIT_OUT, s0.S_RATE_OUT>> }

TiersMet(remaining, s0) == { tier \in TierSet(s0) : FGeInt(remaining, tier[1]) }

Highest(tiers) == { tier \in tiers : \A other \in tiers : other[1] <= tier[1] }

Lowest(tiers) == { tier \in tiers : \A other \in tiers : other[1] >= tier[1] }

\* C16: each pass of the tiered-remainder loop stops at the tier of highest
\* threshold that remaining reaches, adds that tier's rate to the fee, takes
\* the previous threshold (the one recorded by the pass before, not the hit
\* tier's own) off remaining, and records the hit tier's threshold as the
\* new previous one; the next pass scans from the top again.
C16_TierPass ==
    request.route = "_calc_tiers_fee" =>
        \A j \in DOMAIN Passes :
            TiersMet(Passes[j].locals.remaining, s) # {} =>
                /\ Passes[j].tier # 0
                /\ \E tier \in Highest(TiersMet(Passes[j].locals.remaining, s)) :
                      /\ LocalsAfter(j).fee = FAdd(Passes[j].locals.fee, tier[2])
                      /\ LocalsAfter(j).prev_weight = tier[1]
                /\ LocalsAfter(j).remaining
                      = FSubInt(Passes[j].locals.remaining, Passes[j].locals.prev_weight)
                /\ j > 1 =>
                      \E before \in Highest(TiersMet(Passes[j - 1].locals.remaining, s)) :
                          Passes[j].locals.prev_weight = before[1]

\* a call of three hits, the last at a tier whose threshold is not the one
\* taken off
C16_Witness ==
    /\ request.route = "_calc_tiers_fee"
    /\ frames[1].pc = "return"
    /\ PositiveTiers(s)
    /\ Len(Passes) = 3
    /\ \A j \in 1 .. 3 : Passes[j].tier # 0
    /\ Passes[3].locals.prev_weight # LocalsAfter(3).prev_weight
    /\ LocalsAfter(3).remaining
          = FSubInt(Passes[3].locals.remaining, Passes[3].locals.prev_weight)

PassesBelowTiers ==
    { j \in DOMAIN Passes : TiersMet(Passes[j].locals.remaining, s) = {} }

\* C18: a pass that finds remaining positive but below every tier threshold
\* adds exactly one rate, that of the tier of smallest threshold, to the fee
\* and sets remaining to zero, which ends the loop; a call makes at most one
\* such pass.
C18_BelowSmallestTier ==
    request.route = "_calc_tiers_fee" =>
        /\ \A j \in PassesBelowTiers :
              /\ FGt(Passes[j].locals.remaining, FZero)
              /\ Passes[j].tier = 0
              /\ \E tier \in Lowest(TierSet(s)) :
                    LocalsAfter(j).fee = FAdd(Passes[j].locals.fee, tier[2])
              /\ LocalsAfter(j).remaining = FZero
              /\ j = Len(Passes)
        /\ Cardinality(PassesBelowTiers) <= 1

\* a hit leaves a remainder below the smallest threshold: one more pass, which
\* charges the smallest tier's rate, and the call returns
C18_Witness ==
    /\ request.route = "_calc_tiers_fee"
    /\ frames[1].pc = "return"
    /\ PositiveTiers(s)
    /\ Len(Passes) = 2
    /\ PassesBelowTiers = {2}
    /\ response.value = FAdd(Passes[2].locals.fee, s.S_RATE_OUT)
    /\ frames[1].locals.remaining = FZero

\* the thresholds a schedule supplies to the outbound pricer
OutboundThresholds(s0) ==
    { s0.L_VOL_WEIGHT_LIMIT_OUT, s0.M_VOL_WEIGHT_LIMIT_OUT, s0.S_VOL_WEIGHT_LIMIT_OUT }
    \cup (IF HasAttr(s0, "XL_VOL_WEIGHT_LIMIT_OUT") THEN {s0.XL_VOL_WEIGHT_LIMIT_OUT}
          ELSE {})

\* C20: the previous threshold taken off remaining at the first tier hit is a
\* seed the schedule supplies (55 in the reference schedule), not a literal:
\* under every schedule of positive thresholds it is one of that schedule's
\* values.
C20_SeedFromSchedule ==
    (/\ request.route = "_calc_tiers_fee"
     /\ PositiveTiers(s)
     /\ Len(Passes) >= 1
     /\ Passes[1].tier # 0)
    => \E seed \in OutboundThresholds(s) :
          /\ Passes[1].locals.prev_weight = seed
          /\ LocalsAfter(1).remaining = FSubInt(Passes[1].locals.remaining, seed)

\* C19: for a weight at or above the large-order limit compute_outbound
\* returns floor(weight / limit) x the XL rate plus the tiered-remainder fee
\* of weight - floor(weight / limit) x limit, a remainder that is >= 0 and
\* below the limit.
C19_LargeOrderChunks ==
    (/\ request.route = "compute_outbound"
     /\ HasAttr(s, "XL_VOL_WEIGHT_LIMIT_OUT")
     /\ PositiveTiers(s)
     /\ FGeInt(request.vol_weight, s.XL_VOL_WEIGHT_LIMIT_OUT))
    => \E chunks \in 1 .. MaxWeight :
          /\ FGeInt(request.vol_weight, chunks * s.XL_VOL_WEIGHT_LIMIT_OUT)
          /\ FLtInt(request.vol_weight, (chunks + 1) * s.XL_VOL_WEIGHT_LIMIT_OUT)
          /\ FGe(FSubInt(request.vol_weight, chunks * s.XL_VOL_WEIGHT_LIMIT_OUT), FZero)
          /\ FLtInt(FSubInt(request.vol_weight, chunks * s.XL_VOL_WEIGHT_LIMIT_OUT),
                    s.XL_VOL_WEIGHT_LIMIT_OUT)
          /\ response.raised = ""
          /\ response.value =
                FAdd(FMulInt(s.XL_RATE_OUT, chunks),
                     _calc_tiers_fee(FSubInt(request.vol_weight,
                                             chunks * s.XL_VOL_WEIGHT_LIMIT_OUT), s).fee)

\* 125 under the limit 60 and the reference tiers: two chunks and the
\* remainder 5, charged 2 x 10 + 3
C19_Witness ==
    /\ request.route = "compute_outbound"
    /\ s = WithLimit(get_settings, CALLER_XL_VOL_WEIGHT_LIMIT_OUT)
    /\ request.vol_weight = ToFloat(125)
    /\ response.raised = ""
    /\ response.value = ToFloat(23)

\* what call k of the two in flight returns when it runs alone
AloneResult(k) ==
    IF request.calls[k].fn = "process_inbound"
    THEN process_inbound(InitialInventory(request.calls[k].received_products))
    ELSE get_outbound_fees_for_sales_simulation(request.calls[k].sales_products, s)

\* C15: pricing calls are independent: whatever the interleaving of the steps
\* of two calls on different batches or simulations, each call ends with the
\* result it has when it runs alone on the same arguments and schedule.
C15_CallsIndependent ==
    request.route = "calls" =>
        \A k \in DOMAIN frames :
            /\ (frames[k].fn = "process_inbound" /\ frames[k].pc = "done")
                  => frames[k].initial_inventory = AloneResult(k)
            /\ (frames[k].fn = "sales_simulation" /\ frames[k].pc = "done")
                  => AloneResult(k)
                        = Returned([products |-> frames[k].sales_products,
                                    total |-> frames[k].total])
            /\ frames[k].pc = "raised" => AloneResult(k) = Raised(frames[k].raised)

\* a batch of two lines and a simulation of two lines, both priced
C15_Witness ==
    /\ request.route = "calls"
    /\ frames[1].fn = "process_inbound"
    /\ frames[2].fn = "sales_simulation"
    /\ frames[1].pc = "done"
    /\ frames[2].pc = "done"
    /\ Len(frames[1].initial_inventory.received_products) = 2
    /\ Len(frames[2].sales_products) = 2
    /\ FGt(frames[1].initial_inventory.total_inbound_cost_for_batch, FZero)
    /\ FGt(frames[2].total, FZero)
    /\ frames[1].initial_inventory = AloneResult(1)

\* the frames of the process_inbound calls in flight
InboundFrames ==
    IF request = Idle THEN {}
    ELSE { k \in DOMAIN frames : frames[k].fn = "process_inbound" }

\* the lines of a frame's batch that compute_inbound_rates has priced so far
PricedLines(frame) ==
    IF frame.pc = "fees" THEN 1 .. (frame.i - 1)
    ELSE IF frame.pc = "done" THEN DOMAIN frame.initial_inventory.received_products
    ELSE {}

\* the rate IN_TIERS holds for the bucket the batch was assigned
BucketRate(frame) == get_settings.IN_TIERS[frame.initial_inventory.size][2]

\* C21: in process_inbound the bucket is assigned before any line is priced
\* (while the batch has no bucket no line has a fee), one rate, the one looked
\* up for the batch's bucket, prices every line, and each priced line's
\* total_inbound_fee is that rate x quantity_received x the item's vol_weight.
C21_InboundLineFees ==
    \A k \in InboundFrames :
        /\ frames[k].initial_inventory.size = "None" => frames[k].pc = "assign_size"
        /\ frames[k].pc \in {"assign_size", "compute_inbound_rates"} =>
              \A i \in DOMAIN frames[k].initial_inventory.received_products :
                  frames[k].initial_inventory.received_products[i].total_inbound_fee = FZero
        /\ frames[k].pc \in {"fees", "done"} =>
              /\ frames[k].initial_inventory.size \in Size
              /\ frames[k].rate = BucketRate(frames[k])
        /\ \A i \in PricedLines(frames[k]) :
              frames[k].initial_inventory.received_products[i].total_inbound_fee =
                  FMul(FMulInt(BucketRate(frames[k]),
                               frames[k].initial_inventory.received_products[i]
                                   .quantity_received),
                       frames[k].initial_inventory.received_products[i].product.vol_weight)

\* a batch of two lines in bucket L, its first line priced and its second
\* not yet
C21_Witness ==
    /\ request.route = "calls"
    /\ frames[1].fn = "process_inbound"
    /\ frames[1].pc = "fees"
    /\ frames[1].i = 2
    /\ Len(frames[1].initial_inventory.received_products) = 2
    /\ frames[1].initial_inventory.size = "L"
    /\ frames[1].initial_inventory.received_products[1].total_inbound_fee
          = FMul(FMulInt(ToFloat(ENV_L_RATE_IN), MaxQuantity), Ratio(8, 5))
    /\ frames[1].initial_inventory.received_products[2].total_inbound_fee = FZero

\* the rate the schedule configures for a bucket: its own *_RATE_IN field
ConfiguredRateIn(size) ==
    CASE size = "S"  -> get_settings.S_RATE_IN
      [] size = "M"  -> get_settings.M_RATE_IN
      [] size = "L"  -> get_settings.L_RATE_IN
      [] size = "XL" -> get_settings.XL_RATE_IN

\* C22: a batch is priced at the rate configured for its own bucket, each of
\* S, M, L and XL having its own: every line of a batch in bucket M carries
\* M_RATE_IN x quantity_received x vol_weight even when M_RATE_IN differs
\* from S_RATE_IN.
C22_OwnBucketRate ==
    request.route = "process_inbound" =>
        \A i \in DOMAIN response.received_products :
            response.received_products[i].total_inbound_fee =
                FMul(FMulInt(ConfiguredRateIn(response.size),
                             response.received_products[i].quantity_received),
                     response.received_products[i].product.vol_weight)

\* the frame of the process_initial_inventory call in flight
InInventory == request.route = "process_initial_inventory"

\* the lines of the batch in flight
InventoryBatch == frames[1].initial_inventory.received_products

\* the partition loop is over
Partitioned == InInventory /\ frames[1].pc \notin {"process_inbound", "partition"}

\* the proration has built its two lists and summed their volumes
Pooled == Partitioned /\ frames[1].pc \notin {"billing", "pools"}

ShelvesOf(vol) == IF vol = FZero THEN 0 ELSE FCeil(FDivInt(vol, ENV_STRG_UNIT_VOL))

\* get_storage_fees has computed its total
StorageBilled == InInventory /\ frames[1].pc \in {"return", "done"}

\* C24: the batch storage total get_storage_fees returns is
\* ceil(regular_vol_sum / STRG_UNIT_VOL) x regular rate
\* + ceil(large_vol_sum / STRG_UNIT_VOL) x large rate, a pool of zero volume
\* contributing zero shelves and zero fee.
C24_StorageTotal ==
    /\ StorageBilled =>
          /\ frames[1].reg_info =
                BillingInfo(ShelvesOf(frames[1].regular_vol_sum),
                            FMulInt(ToFloat(ENV_STRG_RATE_REG),
                                    ShelvesOf(frames[1].regular_vol_sum)))
          /\ frames[1].large_info =
                BillingInfo(ShelvesOf(frames[1].large_vol_sum),
                            FMulInt(ToFloat(ENV_STRG_RATE_LRG),
                                    ShelvesOf(frames[1].large_vol_sum)))
          /\ frames[1].total_storage_fee =
                FAdd(FMulInt(ToFloat(ENV_STRG_RATE_REG), ShelvesOf(frames[1].regular_vol_sum)),
                     FMulInt(ToFloat(ENV_STRG_RATE_LRG), ShelvesOf(frames[1].large_vol_sum)))
          /\ frames[1].regular_vol_sum = FZero => frames[1].reg_info = BillingInfo(0, FZero)
          /\ frames[1].large_vol_sum = FZero => frames[1].large_info = BillingInfo(0, FZero)
    /\ (InInventory /\ frames[1].pc = "done") =>
          frames[1].initial_inventory.total_storage_cost_for_batch
              = frames[1].total_storage_fee

\* a batch whose regular pool holds one line without volume and whose large
\* pool fills more than five shelves: the total is the large pool's fee
C24_Witness ==
    /\ InInventory
    /\ frames[1].pc = "done"
    /\ Len(frames[1].regular_products) = 1
    /\ frames[1].regular_vol_sum = FZero
    /\ frames[1].reg_info = BillingInfo(0, FZero)
    /\ frames[1].large_info.shelves > 5
    /\ frames[1].initial_inventory.total_storage_cost_for_batch
          = FMulInt(ToFloat(ENV_STRG_RATE_LRG), frames[1].large_info.shelves)

\* both proration loops are over
Prorated == InInventory /\ frames[1].pc \in {"return", "done"}

\* the divisions made so far for one pool
PoolDivisions(large) ==
    SelectSeq(frames[1].divisions, LAMBDA d : d.large = large)

\* a pool of zero volume is priced without any division
C25_NoDivisionForEmptyPool ==
    /\ (Partitioned /\ frames[1].regular_vol_sum = FZero) => PoolDivisions(FALSE) = << >>
    /\ (Partitioned /\ frames[1].large_vol_sum = FZero) => PoolDivisions(TRUE) = << >>
    /\ InInventory =>
          \A k \in DOMAIN frames[1].divisions : frames[1].divisions[k].divisor # FZero

\* C25: every line whose vol_to_store is zero gets storage fee zero, wherever
\* it stands in its pool, the last place of a pool of positive volume
\* included, and a pool whose total volume is zero is priced without any
\* division.
C25_ZeroVolumeZeroFee ==
    /\ Prorated =>
          \A i \in DOMAIN InventoryBatch :
              InventoryBatch[i].vol_to_store = FZero
                  => InventoryBatch[i].total_storage_fee = FZero
    /\ C25_NoDivisionForEmptyPool

\* an inventory without what the storage pass may write: the lines'
\* vol_to_store, large_strg_flag and total_storage_fee, and the batch's
\* storage total
WithoutStorage(inv) ==
    [inv EXCEPT
        !.total_storage_cost_for_batch = FZero,
        !.received_products =
            [i \in DOMAIN inv.received_products |->
                [inv.received_products[i] EXCEPT
                    !.vol_to_store = FZero,
                    !.large_strg_flag = FALSE,
                    !.total_storage_fee = FZero]]]

\* the inbound pass of the computation in flight is over
InboundPriced == InInventory /\ frames[1].pc # "process_inbound"

\* C26: once the inbound pass has set the batch's size, the lines' inbound
\* fees and the batch's inbound total, the storage pass of the same
\* computation leaves them, the items' vol and vol_weight and the lines'
\* quantities as they are: at each of its steps the inventory differs from the
\* one the inbound pass left only in vol_to_store, large_strg_flag and
\* total_storage_fee of lines and in the batch's storage total.
C26_StorageKeepsInbound ==
    InboundPriced =>
        /\ WithoutStorage(frames[1].initial_inventory)
              = WithoutStorage(process_inbound(InitialInventory(request.received_products)))
        /\ frames[1].initial_inventory.size \in Size

\* a batch of three lines in bucket L, priced and stored: both passes have
\* written fees on every line
C26_Witness ==
    /\ InInventory
    /\ frames[1].pc = "done"
    /\ Len(InventoryBatch) = 3
    /\ frames[1].initial_inventory.size = "L"
    /\ \A i \in DOMAIN InventoryBatch :
          /\ FGt(InventoryBatch[i].total_inbound_fee, FZero)
          /\ FGt(InventoryBatch[i].total_storage_fee, FZero)
          /\ InventoryBatch[i].total_inbound_fee # InventoryBatch[i].total_storage_fee
    /\ FGt(frames[1].initial_inventory.total_inbound_cost_for_batch, FZero)
    /\ FGt(frames[1].initial_inventory.total_storage_cost_for_batch, FZero)

\* the k of which the weight priced is exactly k x the large-order limit, 0 if
\* there is none
LimitMultiple ==
    IF \E k \in 1 .. MaxWeight : FEqInt(request.vol_weight, k * s.XL_VOL_WEIGHT_LIMIT_OUT)
    THEN CHOOSE k \in 1 .. MaxWeight :
            FEqInt(request.vol_weight, k * s.XL_VOL_WEIGHT_LIMIT_OUT)
    ELSE 0

\* C27: for an aggregate weight that is exactly k x the large-order limit,
\* k >= 1, compute_outbound returns exactly k x the XL rate: the remainder is
\* zero, and _calc_tiers_fee on a remainder of zero makes no pass of its loop
\* and returns 0.0, adding no smallest-tier fee.
C27_ExactMultipleOfLimit ==
    /\ (/\ request.route = "compute_outbound"
        /\ HasAttr(s, "XL_VOL_WEIGHT_LIMIT_OUT")
        /\ LimitMultiple # 0)
       => response = Returned(FMulInt(s.XL_RATE_OUT, LimitMultiple))
    /\ (request.route = "_calc_tiers_fee" /\ request.remaining = FZero)
       => /\ Passes = << >>
          /\ frames[1].locals.fee = FZero
          /\ frames[1].pc = "return" => response = Returned(FZero)

\* twice the limit is priced two XL rates
C27_Witness ==
    /\ request.route = "compute_outbound"
    /\ HasAttr(s, "XL_VOL_WEIGHT_LIMIT_OUT")
    /\ LimitMultiple = 2
    /\ response = Returned(FMulInt(ToFloat(ENV_XL_RATE_OUT), 2))

\* the lines process_order_simulation builds for the order of the request, and
\* their aggregate volumetric weight
RequestOrderProducts ==
    order_products_of(session["product_catalog_data"], request.data, 1)

RequestOrderWeight == order_vol_weight(RequestOrderProducts, 1, FZero)

\* C28: an order is priced once, on the aggregate of vol_weight x
\* quantity_ordered over its lines, and an order whose aggregate is 0, an
\* empty one or one whose lines were all skipped, is charged S_RATE_OUT, not 0.
C28_OrderPricedOnAggregate ==
    (request.route = "simulate_order" /\ response.status # 404) =>
        /\ response.status = 200
        /\ response.products = RequestOrderProducts
        /\ Returned(response.total)
              = compute_outbound(RequestOrderWeight,
                                 WithLimit(get_settings, CALLER_XL_VOL_WEIGHT_LIMIT_OUT))
        /\ RequestOrderWeight = FZero => response.total = ToFloat(ENV_S_RATE_OUT)

\* C29: in any sequence of requests of a session, a POST to
\* /calculate-inventory-costs made while the session holds no product catalog
\* is answered with the 400 'Product catalog not found in session' error, and
\* it stores no initial_inventory_data in the session.
C29_NoCatalogAnswered400 ==
    (/\ request.route = "calculate_inventory_costs"
     /\ "product_catalog_data" \notin DOMAIN session)
    => /\ response.status = 400
       /\ "initial_inventory_data" \notin DOMAIN session

====
